---- MODULE Spec2Model ----
(***************************************************************************)
(* pdf-study-typer: the spaced-repetition scheduler and the learning       *)
(* tracker of integration/learning_tracker.py, their progress file, the    *)
(* typing challenge of integration/challenge_generator.py and the          *)
(* sequential practice of integration/sequential_practice.py.              *)
(*                                                                         *)
(* Numbers.  mastery is a Python float; here it is an exact decimal, an    *)
(* integer count of 1/Scale.  Every update multiplies by 0.7, 0.8 or 0.5   *)
(* and so needs one more decimal digit: an item is updated only while its  *)
(* mastery is a multiple of 10/Scale, which keeps every product exact.     *)
(* A performance score is an integer count of 1/PerfScale.  A datetime is  *)
(* an integer count of clock ticks, TicksPerDay ticks to the day, and an   *)
(* Optional[datetime] is the empty sequence (None) or <<t>>.  A float      *)
(* quotient is kept as a fraction.                                         *)
(*                                                                         *)
(* The floats round: 0.5 * 0.7 + 0.3 is 0.6499999999999999 in Python and   *)
(* 0.65 here, and two priorities that are equal as decimals may differ in  *)
(* the last bit as floats.  The items and scores of the specifications     *)
(* below are those on which the decimals and the floats agree on every     *)
(* comparison the code makes (the interval thresholds, the due test and    *)
(* the order of the priorities), which running the Python code on every    *)
(* pool, update and time within the bounds confirms.                       *)
(***************************************************************************)
EXTENDS Integers, Sequences, FiniteSets, TLC

(* ------------------------------ bounds --------------------------------- *)
\* longest study_items list of the scheduler specification
MaxItems == 3
\* most entries of session_history in the scheduler specification
MaxUpdates == 1
\* most clock advances in one behaviour of the scheduler specification
MaxAdvances == 1
\* most updates of the single item of the update specification
MaxSteps == 3
\* the tracker specification: longest study_items list, most entries of
\* session_history, most attempts recorded in one session
MaxTrackerItems == 2
MaxTrackerUpdates == 2
MaxRecords == 2
\* most clock advances in one behaviour of the tracker specification
MaxTrackerAdvances == 1
\* the challenge specification: longest expected answer and typed input, most
\* moves of the clock in one behaviour
MaxText == 3
MaxChallengeMoves == 2
\* the progress specification: longest study_items list, most entries of
\* session_history, most clock advances in one behaviour
MaxProgressItems == 1
MaxProgressUpdates == 2
MaxProgressAdvances == 1

\* longest collection, most recorded results and most clock moves of the
\* sequential practice specification
MaxPracticeItems == 3
MaxPracticeResults == 2
MaxPracticeMoves == 1
\* most get_next_item calls counted in a row after one start_session
MaxPracticeCalls == 5

\* longest list of items in a file the tracker did not write, longest list of
\* the tracker, most updates and most clock advances of the load
\* specification
MaxFileItems == 2
MaxLoadItems == 1
MaxLoadUpdates == 1
MaxLoadAdvances == 1

\* the ids a caller may give its items and the longest list of the tracker in
\* the ids specification
MaxIds == 2
MaxIdItems == 3

\* the history specification: items, entries of the history, clock moves
MaxHistoryItems == 1
MaxHistory == 3
MaxHistoryAdvances == 1

\* the closed loop: items of the pool, updates, clock moves within the day
MaxLoopItems == 3
MaxLoopUpdates == 4
MaxLoopAdvances == 2

\* the sequential practice UI: items of a collection, sessions started,
\* answers submitted in a session, clock moves
MaxUiItems == 3
MaxSessions == 2
MaxUiResults == 2
MaxUiMoves == 1
\* the items displayed in one session
MaxShown == 4

\* the session manager: sessions started, callbacks waiting in the main
\* loop, clock moves
MaxManagerSessions == 2
MaxCallbacks == 2
MaxManagerMoves == 3

(* ------------------------------ units ---------------------------------- *)
Scale == 10000
PerfScale == 100
TicksPerDay == 2880
SecondsPerTick == 86400 \div TicksPerDay

None == << >>
Some(t) == << t >>
IsNone(o) == o = << >>
Value(o) == o[1]

Tenths(n) == (n * Scale) \div 10

(* ------------------------------ inputs --------------------------------- *)
\* accuracy scores of the scheduler specification: a poor, an okay and an
\* almost perfect one
Performances == {-50, 60, 97}
\* every tier boundary, the score just under it, the 0.97 of the scenario and
\* the degenerate scores
DensePerformances == {-50, 0, 59, 60, 79, 80, 94, 95, 97, 100, 150}
\* the clock moves by half a minute, a day or thirty days
AdvanceSteps == {1, TicksPerDay, 30 * TicksPerDay}
\* the attempts the tracker records: an accuracy under and at the 0.8 that
\* counts as correct, for an item id that may be unknown
TrackerResults ==
    { [item_id |-> id, accuracy |-> a, wpm |-> 40] :
        id \in 1..(MaxTrackerItems + 1), a \in {79, 80} }

\* the texts of at most n characters
Texts(chars, n) == UNION { [1..k -> chars] : k \in 0..n }
\* the characters str.split() splits on; " " stands for all of them
Whitespace == {" "}
\* the items a challenge is made of: the answer is empty, one word, or words
\* with spaces before, between and after them
AnswerItems ==
    { [id |-> 1, answer |-> answer] : answer \in Texts({"a", " "}, MaxText) }
\* what the user types for an answer: the answer itself, or right and wrong
\* characters, fewer or more than the answer has
UserInputs(answer) == Texts({"a", "b"}, MaxText) \cup { answer }

VARIABLES study_items, session_history, session_stats, now, advances, ret,
          current_challenge, progress_file, session_log, practice, nexts,
          ui, timers, shown, manager, after_queue, manager_timers

vars == << study_items, session_history, session_stats, now, advances, ret,
           current_challenge, progress_file, session_log, practice, nexts,
           ui, timers, shown, manager, after_queue, manager_timers >>

\* the state outside the scheduler and its tracker: the typing challenge in
\* progress and the progress file on disk
challenge_vars == << current_challenge >>
file_vars == << progress_file >>

\* the SequentialPractice object, sequential_practice.py lines 15-20, and its
\* history variable nexts, no state of the program: << k >> when k
\* get_next_item calls were made since the last start_session and no go_back,
\* skip_item, shuffle_remaining, restart or add_items since then, << >>
\* otherwise
practice_vars == << practice, nexts >>

\* the SequentialPracticeUI object, sequential_practice_ui.py: its flag
\* timer_running, whether the practice area is packed and which of its
\* buttons are enabled; the timer threads it started, each where it is in
\* update_timer; and the history variable shown, no state of the program:
\* the items _load_next_item and _prev_item displayed since the last
\* _start_practice, each with the handler that displayed it
ui_vars == << ui, timers, shown >>

\* the session manager, session_manager.py: its session state (lines 36-40),
\* the callbacks its timer threads handed to parent.after and that the main
\* loop has not run yet, and its timer threads
manager_vars == << manager, after_queue, manager_timers >>

\* session_log is a history variable, no state of the program: the attempts
\* that record_challenge_result was given since the last start_session (since
\* the construction when there was none), each with a mark telling whether an
\* end_session has reported it
NoLog == << >>
Logged(log, results) ==
    Append(log, [accuracy |-> results.accuracy, wpm |-> results.wpm,
                 reported |-> FALSE])
Reported(log) == [k \in 1..Len(log) |-> [log[k] EXCEPT !.reported = TRUE]]
Unreported(log) == SelectSeq(log, LAMBDA attempt : ~attempt.reported)

(* ------------------------------ StudyItem ------------------------------ *)
\* the values of the enum StudyItemType, study_item.py lines 10-15
StudyItemType == {"definition", "key_concept", "fill_in_blank", "formula", "list"}

\* an item of the default type, KEY_CONCEPT
StudyItem(id, mastery, last_studied, importance) ==
    [id |-> id, mastery |-> mastery, last_studied |-> last_studied,
     importance |-> importance, item_type |-> "key_concept"]

\* the items a caller hands to the scheduler, each with a fresh id (a uuid4):
\* a new item (mastery 0.0, never studied) or an item restored with mastery
\* 0.5 or 0.9 that was last studied at time 0
SchedulerItems ==
    { StudyItem(Len(study_items) + 1, 0, None, imp) : imp \in {1, 5} }
    \cup { StudyItem(Len(study_items) + 1, Tenths(m), Some(0), imp) :
              m \in {5, 9}, imp \in {1, 5} }

\* the items of the tracker specification: new items, the caller picks the id
TrackerItems ==
    { StudyItem(id, 0, None, imp) : id \in 1..MaxTrackerItems, imp \in {1, 5} }

\* one item with any mastery from -0.5 to 1.5 in steps of 0.1: the dataclass
\* and from_dict accept a mastery outside [0, 1]
AnyMasteryItems ==
    { StudyItem(1, Tenths(m), None, 5) : m \in -5..15 }

(* ------------------------ SpacedRepetitionSystem ----------------------- *)
\* the interval with the 0.9 boundary given to the lower step
_calculate_interval_LowBoundary(mastery) ==
    IF mastery * 10 < 3 * Scale THEN 1
    ELSE IF mastery * 10 < 5 * Scale THEN 3
    ELSE IF mastery * 10 < 7 * Scale THEN 7
    ELSE IF mastery * 10 <= 9 * Scale THEN 14
    ELSE 30

_calculate_interval(mastery) ==
    IF mastery * 10 < 3 * Scale THEN 1
    ELSE IF mastery * 10 < 5 * Scale THEN 3
    ELSE IF mastery * 10 < 7 * Scale THEN 7
    ELSE IF mastery * 10 < 9 * Scale THEN 14
    ELSE 30

Min(a, b) == IF a < b THEN a ELSE b
Max(a, b) == IF a > b THEN a ELSE b

\* (now - last_studied).days: whole days, rounded toward minus infinity
DaysSince(t, last) == (t - last) \div TicksPerDay

\* the update without its clamp to [0, 1]
NewMastery_Unclamped(mastery, performance) ==
    IF performance * 100 >= 95 * PerfScale
        THEN (mastery * 7) \div 10 + (3 * Scale) \div 10
    ELSE IF performance * 10 >= 8 * PerfScale
        THEN (mastery * 8) \div 10 + (18 * Scale) \div 100
    ELSE IF performance * 10 >= 6 * PerfScale
        THEN (mastery * 8) \div 10 + (14 * Scale) \div 100
    ELSE (mastery * 5) \div 10 + (15 * Scale) \div 100

\* the update with each tier boundary given to the lower tier
NewMastery_StrictTiers(mastery, performance) ==
    LET new_mastery ==
            IF performance * 100 > 95 * PerfScale
                THEN (mastery * 7) \div 10 + (3 * Scale) \div 10
            ELSE IF performance * 10 > 8 * PerfScale
                THEN (mastery * 8) \div 10 + (18 * Scale) \div 100
            ELSE IF performance * 10 > 6 * PerfScale
                THEN (mastery * 8) \div 10 + (14 * Scale) \div 100
            ELSE (mastery * 5) \div 10 + (15 * Scale) \div 100
    IN  Max(0, Min(Scale, new_mastery))

\* the update with the poor tier blending toward 0.5 instead of 0.3
NewMastery_PoorTarget(mastery, performance) ==
    LET new_mastery ==
            IF performance * 100 >= 95 * PerfScale
                THEN (mastery * 7) \div 10 + (3 * Scale) \div 10
            ELSE IF performance * 10 >= 8 * PerfScale
                THEN (mastery * 8) \div 10 + (18 * Scale) \div 100
            ELSE IF performance * 10 >= 6 * PerfScale
                THEN (mastery * 8) \div 10 + (14 * Scale) \div 100
            ELSE (mastery * 5) \div 10 + (25 * Scale) \div 100
    IN  Max(0, Min(Scale, new_mastery))

NewMastery(mastery, performance) ==
    LET new_mastery ==
            IF performance * 100 >= 95 * PerfScale
                THEN (mastery * 7) \div 10 + (3 * Scale) \div 10
            ELSE IF performance * 10 >= 8 * PerfScale
                THEN (mastery * 8) \div 10 + (18 * Scale) \div 100
            ELSE IF performance * 10 >= 6 * PerfScale
                THEN (mastery * 8) \div 10 + (14 * Scale) \div 100
            ELSE (mastery * 5) \div 10 + (15 * Scale) \div 100
    IN  Max(0, Min(Scale, new_mastery))

\* least common multiple of the intervals 1, 3, 7, 14 and 30: a time factor is
\* an integer count of 1/IntervalLcm
IntervalLcm == 210

\* the time factor without the high priority of new items
TimeFactor_NoNewBoost(item, t) ==
    LET last_studied == item.last_studied IN
    IF IsNone(last_studied) THEN 0
    ELSE LET days_since == DaysSince(t, Value(last_studied))
             ideal_interval == _calculate_interval(item.mastery)
         IN  IF ideal_interval > 0
             THEN (days_since * IntervalLcm) \div ideal_interval
             ELSE 10 * IntervalLcm

\* lines 37-45 of get_next_item
TimeFactor(item, t) ==
    LET last_studied == item.last_studied IN
    IF IsNone(last_studied) THEN 10 * IntervalLcm
    ELSE LET days_since == DaysSince(t, Value(last_studied))
             ideal_interval == _calculate_interval(item.mastery)
         IN  IF ideal_interval > 0
             THEN (days_since * IntervalLcm) \div ideal_interval
             ELSE 10 * IntervalLcm

\* the priority without the importance weight
Priority_NoImportance(item, t) == TimeFactor(item, t) * (Scale - item.mastery)

\* line 48 of get_next_item, in units of 1/(IntervalLcm * Scale)
Priority(item, t) == TimeFactor(item, t) * (Scale - item.mastery) * item.importance

\* a descending sort that puts an item behind the later items of equal key
RECURSIVE SortDescending_Unstable(_)
SortDescending_Unstable(s) ==
    IF s = << >> THEN << >>
    ELSE LET x == Head(s)
             rest == SortDescending_Unstable(Tail(s))
         IN  SelectSeq(rest, LAMBDA y : y[2] >= x[2])
             \o << x >>
             \o SelectSeq(rest, LAMBDA y : y[2] < x[2])

\* the sort without reverse=True: ascending
RECURSIVE SortDescending_Ascending(_)
SortDescending_Ascending(s) ==
    IF s = << >> THEN << >>
    ELSE LET x == Head(s)
             rest == SortDescending_Ascending(Tail(s))
         IN  SelectSeq(rest, LAMBDA y : y[2] < x[2])
             \o << x >>
             \o SelectSeq(rest, LAMBDA y : y[2] >= x[2])

\* list.sort(key, reverse=True): a stable sort, equal keys keep their order.
\* s is a sequence of <<index, priority>> pairs.
RECURSIVE SortDescending(_)
SortDescending(s) ==
    IF s = << >> THEN << >>
    ELSE LET x == Head(s)
             rest == SortDescending(Tail(s))
         IN  SelectSeq(rest, LAMBDA y : y[2] > x[2])
             \o << x >>
             \o SelectSeq(rest, LAMBDA y : y[2] <= x[2])

\* lines 32-52 of get_next_item
ItemsWithPriority(items, t) ==
    SortDescending([i \in 1..Len(items) |-> << i, Priority(items[i], t) >>])

\* position of the first item with this id, 0 when there is none
FirstWithId(items, item_id) ==
    IF \E i \in 1..Len(items) : items[i].id = item_id
    THEN CHOOSE i \in 1..Len(items) :
            /\ items[i].id = item_id
            /\ \A j \in 1..(i - 1) : items[j].id # item_id
    ELSE 0

\* datetime.isoformat(): the text of a timestamp
isoformat(t) == << "iso", t >>

\* the update without the stamp of line 83
UpdatedItems_NoStamp(items, item_id, performance, t) ==
    LET k == FirstWithId(items, item_id) IN
    IF k = 0 THEN items
    ELSE [items EXCEPT ![k].mastery = NewMastery(items[k].mastery, performance)]

\* the update stamping every item of the collection
UpdatedItems_StampsAll(items, item_id, performance, t) ==
    LET k == FirstWithId(items, item_id) IN
    IF k = 0 THEN items
    ELSE [i \in 1..Len(items) |->
            IF i = k
            THEN [items[i] EXCEPT
                    !.mastery = NewMastery(items[k].mastery, performance),
                    !.last_studied = Some(t)]
            ELSE [items[i] EXCEPT !.last_studied = Some(t)]]

\* lines 68-83 of update_item_mastery: the collection after the call
UpdatedItems(items, item_id, performance, t) ==
    LET k == FirstWithId(items, item_id) IN
    IF k = 0 THEN items
    ELSE [items EXCEPT ![k].mastery = NewMastery(items[k].mastery, performance),
                       ![k].last_studied = Some(t)]

\* the history holding the entry of the last update alone
UpdatedHistory_KeepsLast(history, items, item_id, performance, t) ==
    LET k == FirstWithId(items, item_id) IN
    IF k = 0 THEN history
    ELSE << [item_id |-> item_id, timestamp |-> isoformat(t),
             performance |-> performance,
             new_mastery |-> NewMastery(items[k].mastery, performance)] >>

\* lines 85-91 of update_item_mastery: the history after the call
UpdatedHistory(history, items, item_id, performance, t) ==
    LET k == FirstWithId(items, item_id) IN
    IF k = 0 THEN history
    ELSE Append(history,
                [item_id |-> item_id, timestamp |-> isoformat(t),
                 performance |-> performance,
                 new_mastery |-> NewMastery(items[k].mastery, performance)])

\* the due test with > for >=
RECURSIVE DueFrom_Strict(_, _, _)
DueFrom_Strict(items, i, t) ==
    IF i > Len(items) THEN << >>
    ELSE LET item == items[i]
             due == \/ IsNone(item.last_studied)
                    \/ DaysSince(t, Value(item.last_studied))
                           > _calculate_interval(item.mastery)
         IN  (IF due THEN << i >> ELSE << >>) \o DueFrom_Strict(items, i + 1, t)

\* lines 153-179 of get_due_items: the positions of the due items, in order.
\* from_dict and update_item_mastery store a datetime or None, never a string,
\* so the isinstance(last_studied, str) branch is not taken.
RECURSIVE DueFrom(_, _, _)
DueFrom(items, i, t) ==
    IF i > Len(items) THEN << >>
    ELSE LET item == items[i]
             due == \/ IsNone(item.last_studied)
                    \/ DaysSince(t, Value(item.last_studied))
                           >= _calculate_interval(item.mastery)
         IN  (IF due THEN << i >> ELSE << >>) \o DueFrom(items, i + 1, t)

RECURSIVE SumMastery(_, _)
SumMastery(items, i) ==
    IF i > Len(items) THEN 0 ELSE items[i].mastery + SumMastery(items, i + 1)

\* a float quotient a / b, kept as the exact fraction
Quotient(a, b) == [num |-> a, den |-> b]
Zero == Quotient(0, 1)

\* a float division a / b: the quotient, or the exception Python raises
ZeroDivisionError == [raised |-> "ZeroDivisionError"]
Divide(a, b) == IF b = 0 THEN ZeroDivisionError ELSE Quotient(a, b)
Raised(x) == x = ZeroDivisionError
One == Quotient(1, 1)

IdleStats ==
    [start_time |-> None, items_studied |-> 0, correct_items |-> 0,
     total_accuracy |-> 0, total_wpm |-> 0]

\* a random index one past the end of the list
RandomChoice_OffByOne(items) == 1..(Len(items) + 1)

\* the outcomes of random.choice(self.study_items)
RandomChoice(items) == 1..Len(items)

\* the highest priority item: items_with_priority[0][0]
TopRanked(items, t) == ItemsWithPriority(items, t)[1][1]

\* a pool of one item taken for an empty one
PoolIsEmpty_OffByOne(items) == Len(items) <= 1

\* line 28 of get_next_item: not self.study_items
PoolIsEmpty(items) == Len(items) = 0

\* the value get_next_item returns, as a position in study_items (0 for None),
\* with the branch that chose it and, when the call before it was a ranked
\* get_next_item too, the position that call returned
NextItem(random, item) ==
    [op |-> "get_next_item", random |-> random, item |-> item,
     before |-> IF ret.op = "get_next_item" /\ ~ret.random
                THEN << ret.item >> ELSE << >>]

Init ==
    /\ study_items = << >>
    /\ session_history = << >>
    /\ session_stats = IdleStats
    /\ now = 0
    /\ advances = 0
    /\ ret = [op |-> "init"]
    /\ current_challenge = None
    /\ progress_file = None
    /\ session_log = NoLog
    /\ practice = [study_items |-> << >>, current_index |-> 0,
                   session_results |-> << >>, start_time |-> None,
                   end_time |-> None]
    /\ nexts = None
    /\ ui = [timer_running |-> FALSE, packed |-> FALSE, submit_btn |-> TRUE,
             next_btn |-> FALSE, prev_btn |-> FALSE, skip_btn |-> TRUE,
             time_var |-> 0]
    /\ timers = << >>
    /\ shown = << >>
    /\ manager = [session_active |-> FALSE, current_step |-> 0,
                  session_start_time |-> None, step_start_time |-> None,
                  timer_running |-> FALSE]
    /\ after_queue = 0
    /\ manager_timers = << >>

\* add_items appending the list twice
add_items_Twice(items) ==
    /\ study_items' = study_items \o items \o items
    /\ ret' = [op |-> "add_items"]
    /\ UNCHANGED << session_history, session_stats, now, advances >>
    /\ UNCHANGED << challenge_vars, file_vars >>
    /\ UNCHANGED session_log
    /\ UNCHANGED practice_vars
    /\ UNCHANGED << ui_vars, manager_vars >>

add_items(items) ==
    /\ study_items' = study_items \o items
    /\ ret' = [op |-> "add_items"]
    /\ UNCHANGED << session_history, session_stats, now, advances >>
    /\ UNCHANGED << challenge_vars, file_vars >>
    /\ UNCHANGED session_log
    /\ UNCHANGED practice_vars
    /\ UNCHANGED << ui_vars, manager_vars >>

\* get_next_item sorting self.study_items itself, in place
get_next_item_SortsInPlace ==
    /\ IF PoolIsEmpty(study_items)
       THEN ret' = NextItem(FALSE, 0)
       ELSE \E randomize \in BOOLEAN :
               IF randomize
               THEN \E i \in RandomChoice(study_items) : ret' = NextItem(TRUE, i)
               ELSE ret' = NextItem(FALSE, 1)
    /\ study_items' =
          [k \in 1..Len(study_items) |->
              study_items[ItemsWithPriority(study_items, now)[k][1]]]
    /\ UNCHANGED << session_history, session_stats, now, advances >>
    /\ UNCHANGED << challenge_vars, file_vars >>
    /\ UNCHANGED session_log
    /\ UNCHANGED practice_vars
    /\ UNCHANGED << ui_vars, manager_vars >>

get_next_item ==
    /\ IF PoolIsEmpty(study_items)
       THEN ret' = NextItem(FALSE, 0)
       ELSE \E randomize \in BOOLEAN :
               IF randomize
               THEN \E i \in RandomChoice(study_items) : ret' = NextItem(TRUE, i)
               ELSE ret' = NextItem(FALSE, TopRanked(study_items, now))
    /\ UNCHANGED << study_items, session_history, session_stats, now, advances >>
    /\ UNCHANGED << challenge_vars, file_vars >>
    /\ UNCHANGED session_log
    /\ UNCHANGED practice_vars
    /\ UNCHANGED << ui_vars, manager_vars >>

\* the mastery of the item the call updates has a spare decimal digit
Exact(item_id) ==
    LET k == FirstWithId(study_items, item_id) IN
    k # 0 => study_items[k].mastery % 10 = 0

update_item_mastery(item_id, performance) ==
    /\ Exact(item_id)
    /\ study_items' = UpdatedItems(study_items, item_id, performance, now)
    /\ session_history' = UpdatedHistory(session_history, study_items,
                                         item_id, performance, now)
    /\ ret' = [op |-> "update_item_mastery", item_id |-> item_id,
               performance |-> performance,
               item |-> FirstWithId(study_items, item_id)]
    /\ UNCHANGED << session_stats, now, advances >>
    /\ UNCHANGED << challenge_vars, file_vars >>
    /\ UNCHANGED session_log
    /\ UNCHANGED practice_vars
    /\ UNCHANGED << ui_vars, manager_vars >>

get_due_items ==
    /\ ret' = [op |-> "get_due_items", due |-> DueFrom(study_items, 1, now)]
    /\ UNCHANGED << study_items, session_history, session_stats, now, advances >>
    /\ UNCHANGED << challenge_vars, file_vars >>
    /\ UNCHANGED session_log
    /\ UNCHANGED practice_vars
    /\ UNCHANGED << ui_vars, manager_vars >>

get_learning_stats ==
    /\ ret' = [op |-> "get_learning_stats",
               stats |->
                 IF study_items = << >>
                 THEN [total_items |-> 0, mastered_items |-> 0,
                       mastery_percentage |-> Zero, average_mastery |-> Zero]
                 ELSE LET mastered_items ==
                            Cardinality({i \in 1..Len(study_items) :
                               study_items[i].mastery * 10 >= 8 * Scale})
                      IN  [total_items |-> Len(study_items),
                           mastered_items |-> mastered_items,
                           mastery_percentage |->
                              Quotient(mastered_items * 100, Len(study_items)),
                           average_mastery |->
                              Quotient(SumMastery(study_items, 1),
                                       Len(study_items))]]
    /\ UNCHANGED << study_items, session_history, session_stats, now, advances >>
    /\ UNCHANGED << challenge_vars, file_vars >>
    /\ UNCHANGED session_log
    /\ UNCHANGED practice_vars
    /\ UNCHANGED << ui_vars, manager_vars >>

(* ------------------------------ persistence --------------------------- *)
\* The JSON value of the key last_studied is null (None), the isoformat text
\* of the time t (<< "iso", t >>), another string, of n characters
\* (<< "str", n >>), or the number n (<< "num", n >>).

\* bool(value): None, the empty string and 0 are false
Truthy(value) ==
    IF value = None THEN FALSE
    ELSE IF value[1] = "iso" THEN TRUE
    ELSE value[2] # 0

\* datetime.fromisoformat(text) returns: a string that is no isoformat text
\* raises ValueError, a number raises TypeError
Parses(text) == text[1] = "iso"

\* datetime.fromisoformat(text): the timestamp the text spells
fromisoformat(text) == text[2]

\* the exceptions of this section
ValueError == [raised |-> "ValueError"]
AttributeError == [raised |-> "AttributeError"]
JSONDecodeError == [raised |-> "JSONDecodeError"]
Raises(x) == "raised" \in DOMAIN x

\* data.get(key, default)
Get(data, key, default) == IF key \in DOMAIN data THEN data[key] ELSE default

\* StudyItem.to_dict, study_item.py lines 38-50: last_studied becomes its
\* isoformat() text, or stays None
to_dict(item) ==
    [id |-> item.id, item_type |-> item.item_type,
     importance |-> item.importance, mastery |-> item.mastery,
     last_studied |-> IF IsNone(item.last_studied) THEN None
                      ELSE isoformat(Value(item.last_studied))]

\* from_dict without the timestamp
from_dict_DropsLastStudied(data) ==
    IF Get(data, "item_type", "key_concept") \notin StudyItemType
    THEN ValueError
    ELSE [id |-> data.id,
          item_type |-> Get(data, "item_type", "key_concept"),
          importance |-> Get(data, "importance", 5),
          mastery |-> Get(data, "mastery", 0),
          last_studied |-> None]

\* from_dict without the except clause of lines 63-64
from_dict_NoCatch(data) ==
    LET value == Get(data, "last_studied", None) IN
    IF Get(data, "item_type", "key_concept") \notin StudyItemType
    THEN ValueError
    ELSE IF Truthy(value) /\ ~Parses(value)
    THEN ValueError
    ELSE [id |-> data.id,
          item_type |-> Get(data, "item_type", "key_concept"),
          importance |-> Get(data, "importance", 5),
          mastery |-> Get(data, "mastery", 0),
          last_studied |-> IF Truthy(value) THEN Some(fromisoformat(value))
                           ELSE None]

\* StudyItem.from_dict, study_item.py lines 52-76: the item, or the ValueError
\* that StudyItemType(...) raises on line 56 for a string that is no value of
\* the enum. The dicts of the specifications all have the key id, so that the
\* uuid4 default of line 67 is not taken.
from_dict(data) ==
    LET value == Get(data, "last_studied", None) IN
    IF Get(data, "item_type", "key_concept") \notin StudyItemType
    THEN ValueError
    ELSE [id |-> data.id,
          item_type |-> Get(data, "item_type", "key_concept"),
          importance |-> Get(data, "importance", 5),
          mastery |-> Get(data, "mastery", 0),
          last_studied |-> IF Truthy(value) /\ Parses(value)
                           THEN Some(fromisoformat(value))
                           ELSE None]

\* save_progress, lines 111-126: the file holds the items, the history and
\* the metadata
save_progress ==
    /\ progress_file' =
          Some([items |-> [i \in 1..Len(study_items) |-> to_dict(study_items[i])],
                session_history |-> session_history,
                metadata |-> [date_saved |-> isoformat(now),
                              total_items |-> Len(study_items)]])
    /\ ret' = [op |-> "save_progress"]
    /\ UNCHANGED << study_items, session_history, session_stats, now, advances >>
    /\ UNCHANGED challenge_vars
    /\ UNCHANGED session_log
    /\ UNCHANGED practice_vars
    /\ UNCHANGED << ui_vars, manager_vars >>

\* The content of the file is the JSON value it spells, a record for a JSON
\* object: a file that is no JSON text is [text |-> ...] and a JSON array
\* [array |-> ...].

\* json.load(f), line 134
json_load(content) ==
    IF "text" \in DOMAIN content THEN JSONDecodeError ELSE content

\* the loop of lines 138-140: the items appended to the new list, up to the
\* first dict on which from_dict raises
RECURSIVE LoadedItems(_, _)
LoadedItems(dicts, i) ==
    IF i > Len(dicts) \/ Raises(from_dict(dicts[i])) THEN << >>
    ELSE << from_dict(dicts[i]) >> \o LoadedItems(dicts, i + 1)

\* lines 130-149 of load_progress: what the call returns or raises, and the
\* items and the history it leaves. open() raises FileNotFoundError without a
\* file and json.load raises JSONDecodeError on a file that is no JSON text:
\* both are caught and the call returns False. A JSON array has no get
\* (AttributeError, line 138) and from_dict may raise ValueError (line 139):
\* neither is caught, and both come after line 137 has emptied the list, so
\* that the list is left as far as the loop came.
Loaded(file, items, history) ==
    IF IsNone(file)
    THEN [raised |-> FALSE, ok |-> FALSE, study_items |-> items,
          session_history |-> history]
    ELSE LET data == json_load(Value(file)) IN
         IF Raises(data)
         THEN [raised |-> FALSE, ok |-> FALSE, study_items |-> items,
               session_history |-> history]
         ELSE IF "array" \in DOMAIN data
         THEN [raised |-> TRUE, exception |-> AttributeError,
               study_items |-> << >>, session_history |-> history]
         ELSE LET dicts == Get(data, "items", << >>)
                  loaded == LoadedItems(dicts, 1)
              IN  IF Len(loaded) < Len(dicts)
                  THEN [raised |-> TRUE, exception |-> ValueError,
                        study_items |-> loaded, session_history |-> history]
                  ELSE [raised |-> FALSE, ok |-> TRUE, study_items |-> loaded,
                        session_history |-> Get(data, "session_history", << >>)]

\* load_progress, lines 128-149; ret remembers the items and the history
\* before the call
load_progress ==
    /\ LET loaded == Loaded(progress_file, study_items, session_history) IN
       /\ study_items' = loaded.study_items
       /\ session_history' = loaded.session_history
       /\ ret' = IF loaded.raised
                 THEN [op |-> "load_progress", raised |-> TRUE,
                       exception |-> loaded.exception,
                       before |-> << study_items, session_history >>]
                 ELSE [op |-> "load_progress", raised |-> FALSE,
                       ok |-> loaded.ok,
                       before |-> << study_items, session_history >>]
    /\ UNCHANGED << session_stats, now, advances >>
    /\ UNCHANGED << challenge_vars, file_vars >>
    /\ UNCHANGED session_log
    /\ UNCHANGED practice_vars
    /\ UNCHANGED << ui_vars, manager_vars >>

\* the file is written by something else than save_progress: another program,
\* an editor, a copy cut short
file_written(content) ==
    /\ progress_file' = Some(content)
    /\ ret' = [op |-> "file_written"]
    /\ UNCHANGED << study_items, session_history, session_stats, now, advances >>
    /\ UNCHANGED challenge_vars
    /\ UNCHANGED session_log
    /\ UNCHANGED practice_vars
    /\ UNCHANGED << ui_vars, manager_vars >>

_calculate_interval_call(mastery) ==
    /\ ret' = [op |-> "_calculate_interval", mastery |-> mastery,
               interval |-> _calculate_interval(mastery),
               before |-> IF ret.op = "_calculate_interval"
                          THEN << ret.mastery, ret.interval >> ELSE << >>]
    /\ UNCHANGED << study_items, session_history, session_stats, now, advances >>
    /\ UNCHANGED << challenge_vars, file_vars >>
    /\ UNCHANGED session_log
    /\ UNCHANGED practice_vars
    /\ UNCHANGED << ui_vars, manager_vars >>

(* ---------------------------- LearningTracker -------------------------- *)
\* start_session setting the start time and leaving the counters as they are
start_session_KeepsCounters ==
    /\ session_stats' = [session_stats EXCEPT !.start_time = Some(now)]
    /\ ret' = [op |-> "start_session"]
    /\ UNCHANGED << study_items, session_history, now, advances >>
    /\ UNCHANGED << challenge_vars, file_vars >>
    /\ session_log' = NoLog
    /\ UNCHANGED practice_vars
    /\ UNCHANGED << ui_vars, manager_vars >>

start_session ==
    /\ session_stats' = [IdleStats EXCEPT !.start_time = Some(now)]
    /\ ret' = [op |-> "start_session"]
    /\ UNCHANGED << study_items, session_history, now, advances >>
    /\ UNCHANGED << challenge_vars, file_vars >>
    /\ session_log' = NoLog
    /\ UNCHANGED practice_vars
    /\ UNCHANGED << ui_vars, manager_vars >>

\* the counters with > 0.8 for >= 0.8
RecordedStats_StrictCorrect(stats, results) ==
    [stats EXCEPT
       !.items_studied = @ + 1,
       !.total_accuracy = @ + results.accuracy,
       !.total_wpm = @ + results.wpm,
       !.correct_items =
           IF results.accuracy * 10 > 8 * PerfScale THEN @ + 1 ELSE @]

\* lines 227-232 of record_challenge_result: the counters after the call
RecordedStats(stats, results) ==
    [stats EXCEPT
       !.items_studied = @ + 1,
       !.total_accuracy = @ + results.accuracy,
       !.total_wpm = @ + results.wpm,
       !.correct_items =
           IF results.accuracy * 10 >= 8 * PerfScale THEN @ + 1 ELSE @]

record_challenge_result(results) ==
    /\ Exact(results.item_id)
    /\ session_stats' = RecordedStats(session_stats, results)
    /\ study_items' = UpdatedItems(study_items, results.item_id,
                                   results.accuracy, now)
    /\ session_history' = UpdatedHistory(session_history, study_items,
                                         results.item_id, results.accuracy, now)
    /\ ret' = [op |-> "record_challenge_result", item_id |-> results.item_id,
               performance |-> results.accuracy, wpm |-> results.wpm,
               item |-> FirstWithId(study_items, results.item_id)]
    /\ UNCHANGED << now, advances >>
    /\ UNCHANGED << challenge_vars, file_vars >>
    /\ session_log' = Logged(session_log, results)
    /\ UNCHANGED practice_vars
    /\ UNCHANGED << ui_vars, manager_vars >>

\* the summary with the duration counted from time 0 when no session was
\* started
SessionSummary_NoStartGuard(stats, end_time) ==
    LET items_studied == stats.items_studied
        start_time == IF IsNone(stats.start_time) THEN 0
                      ELSE Value(stats.start_time)
        duration == Quotient((end_time - start_time) * SecondsPerTick, 60)
        accuracy_percentage ==
            IF items_studied > 0
            THEN Divide(stats.total_accuracy * 100, items_studied) ELSE Zero
        average_wpm ==
            IF items_studied > 0
            THEN Divide(stats.total_wpm, items_studied) ELSE Zero
    IN  [duration_minutes |-> duration,
         items_studied |-> items_studied,
         correct_items |-> stats.correct_items,
         accuracy_percentage |-> accuracy_percentage,
         average_wpm |-> average_wpm]

\* the summary without the items_studied > 0 guards
SessionSummary_NoGuard(stats, end_time) ==
    LET items_studied == stats.items_studied
        duration == IF IsNone(stats.start_time) THEN Zero
                    ELSE Quotient((end_time - Value(stats.start_time))
                                     * SecondsPerTick, 60)
        accuracy_percentage == Divide(stats.total_accuracy * 100, items_studied)
        average_wpm == Divide(stats.total_wpm, items_studied)
    IN  IF Raised(accuracy_percentage) \/ Raised(average_wpm)
        THEN ZeroDivisionError
        ELSE [duration_minutes |-> duration,
              items_studied |-> items_studied,
              correct_items |-> stats.correct_items,
              accuracy_percentage |-> accuracy_percentage,
              average_wpm |-> average_wpm]

\* lines 242-258 of end_session: the summary, or the exception a division
\* raises. total_accuracy / items_studied * 100 is kept as one fraction, in
\* units of 1/PerfScale.
SessionSummary(stats, end_time) ==
    LET items_studied == stats.items_studied
        duration == IF IsNone(stats.start_time) THEN Zero
                    ELSE Quotient((end_time - Value(stats.start_time))
                                     * SecondsPerTick, 60)
        accuracy_percentage ==
            IF items_studied > 0
            THEN Divide(stats.total_accuracy * 100, items_studied) ELSE Zero
        average_wpm ==
            IF items_studied > 0
            THEN Divide(stats.total_wpm, items_studied) ELSE Zero
    IN  IF Raised(accuracy_percentage) \/ Raised(average_wpm)
        THEN ZeroDivisionError
        ELSE [duration_minutes |-> duration,
              items_studied |-> items_studied,
              correct_items |-> stats.correct_items,
              accuracy_percentage |-> accuracy_percentage,
              average_wpm |-> average_wpm]

\* end_session leaving the counters as they are
end_session_KeepsStats ==
    /\ ret' = [op |-> "end_session", raised |-> FALSE,
               again |-> ret.op = "end_session",
               summary |-> SessionSummary(session_stats, now),
               before |-> IF ret.op = "end_session" /\ ~ret.raised
                          THEN << ret.summary >> ELSE << >>]
    /\ UNCHANGED << study_items, session_history, session_stats, now, advances >>
    /\ UNCHANGED << challenge_vars, file_vars >>
    /\ UNCHANGED session_log
    /\ UNCHANGED practice_vars
    /\ UNCHANGED << ui_vars, manager_vars >>

\* end_session, lines 240-269: an exception leaves the counters as they
\* were; ret tells whether the call just before was an end_session too, and
\* remembers the summary it returned
end_session ==
    /\ LET session_summary == SessionSummary(session_stats, now) IN
       IF Raised(session_summary)
       THEN /\ ret' = [op |-> "end_session", raised |-> TRUE,
                       again |-> ret.op = "end_session"]
            /\ UNCHANGED << session_stats, session_log >>
       ELSE /\ ret' = [op |-> "end_session", raised |-> FALSE,
                       again |-> ret.op = "end_session",
                       summary |-> session_summary,
                       before |-> IF ret.op = "end_session" /\ ~ret.raised
                                  THEN << ret.summary >> ELSE << >>]
            /\ session_stats' = IdleStats
            /\ session_log' = Reported(session_log)
    /\ UNCHANGED << study_items, session_history, now, advances >>
    /\ UNCHANGED << challenge_vars, file_vars >>
    /\ UNCHANGED practice_vars
    /\ UNCHANGED << ui_vars, manager_vars >>

\* the wall clock moves between calls
Advance(most) ==
    /\ advances < most
    /\ \E d \in AdvanceSteps : now' = now + d
    /\ advances' = advances + 1
    /\ ret' = [op |-> "clock"]
    /\ UNCHANGED << study_items, session_history, session_stats >>
    /\ UNCHANGED << challenge_vars, file_vars >>
    /\ UNCHANGED session_log
    /\ UNCHANGED practice_vars
    /\ UNCHANGED << ui_vars, manager_vars >>

\* the wall clock moves by one of the steps, in ticks; a negative step is the
\* clock set back (a clock correction, the end of daylight saving time:
\* datetime.now() is the local time)
ClockMoves(steps, most) ==
    /\ advances < most
    /\ \E d \in steps : now' = now + d
    /\ advances' = advances + 1
    /\ ret' = [op |-> "clock"]
    /\ UNCHANGED << study_items, session_history, session_stats >>
    /\ UNCHANGED << challenge_vars, file_vars >>
    /\ UNCHANGED session_log
    /\ UNCHANGED practice_vars
    /\ UNCHANGED << ui_vars, manager_vars >>

(* ---------------------------- TypingChallenge -------------------------- *)
\* str.split() splitting on every single whitespace character, which yields
\* an empty word between two of them
RECURSIVE split_OnEachSpace(_)
split_OnEachSpace(s) ==
    IF \A i \in 1..Len(s) : s[i] \notin Whitespace THEN << s >>
    ELSE LET n == CHOOSE i \in 1..Len(s) :
                     /\ s[i] \in Whitespace
                     /\ \A j \in 1..(i - 1) : s[j] \notin Whitespace
         IN  << SubSeq(s, 1, n - 1) >> \o split_OnEachSpace(SubSeq(s, n + 1, Len(s)))

\* str.split(): the words of s, the maximal runs of characters that are not
\* whitespace
RECURSIVE split(_)
split(s) ==
    IF s = << >> THEN << >>
    ELSE IF Head(s) \in Whitespace THEN split(Tail(s))
    ELSE LET n == IF \E i \in 1..Len(s) : s[i] \in Whitespace
                  THEN CHOOSE i \in 1..Len(s) :
                          /\ s[i] \in Whitespace
                          /\ \A j \in 1..(i - 1) : s[j] \notin Whitespace
                  ELSE Len(s) + 1
         IN  << SubSeq(s, 1, n - 1) >> \o split(SubSeq(s, n, Len(s)))

\* zip that loses the last pair
zip_DropsLast(a, b) ==
    [i \in 1..(Min(Len(a), Len(b)) - 1) |-> << a[i], b[i] >>]

\* zip(a, b): the pairs up to the end of the shorter text
zip(a, b) == [i \in 1..Min(Len(a), Len(b)) |-> << a[i], b[i] >>]

\* sum(1 for a, b in zip(user_input, expected) if a == b)
Matches(user_input, expected) ==
    Len(SelectSeq(zip(user_input, expected), LAMBDA pair : pair[1] = pair[2]))

\* the accuracy as the share of the typed characters that are right
_calculate_accuracy_PerTyped(expected, user_input) ==
    IF expected = << >> THEN One
    ELSE IF user_input = << >> THEN Quotient(0, 1)
    ELSE Divide(Matches(user_input, expected), Len(user_input))

\* the accuracy without the test for an empty expected answer
_calculate_accuracy_NoEmptyGuard(expected, user_input) ==
    Divide(Matches(user_input, expected), Len(expected))

\* lines 57-66
_calculate_accuracy(expected, user_input) ==
    IF expected = << >> THEN One
    ELSE Divide(Matches(user_input, expected), Len(expected))

\* (end_time - start_time).total_seconds()
total_seconds(start_time, end_time) ==
    (Value(end_time) - Value(start_time)) * SecondsPerTick

\* lines 36-39 of complete: the wpm of the challenge c after them. time_taken
\* is seconds / 60.0, so num_words / time_taken is num_words * 60 / seconds.
WordsPerMinute(c) ==
    IF ~IsNone(c.end_time) /\ ~IsNone(c.start_time)
    THEN LET seconds == total_seconds(c.start_time, c.end_time)
             num_words == Len(split(c.study_item.answer))
         IN  IF seconds > 0 THEN Divide(num_words * 60, seconds) ELSE Zero
    ELSE c.wpm

\* lines 43-55
get_results(c) ==
    IF ~c.completed THEN [status |-> "incomplete"]
    ELSE [item_id |-> c.study_item.id,
          accuracy |-> c.accuracy,
          wpm |-> c.wpm,
          time_taken |-> IF ~IsNone(c.end_time) /\ ~IsNone(c.start_time)
                         THEN total_seconds(c.start_time, c.end_time) ELSE 0,
          expected |-> c.study_item.answer,
          actual |-> c.user_input]

\* TypingChallenge(study_item), lines 13-20
TypingChallenge_init(study_item) ==
    /\ current_challenge' =
          [study_item |-> study_item, start_time |-> None, end_time |-> None,
           user_input |-> << >>, accuracy |-> Zero, wpm |-> Zero,
           completed |-> FALSE]
    /\ ret' = [op |-> "TypingChallenge"]
    /\ UNCHANGED << study_items, session_history, session_stats, now, advances,
                    file_vars >>
    /\ UNCHANGED session_log
    /\ UNCHANGED practice_vars
    /\ UNCHANGED << ui_vars, manager_vars >>

start ==
    /\ current_challenge # None
    /\ current_challenge' = [current_challenge EXCEPT !.start_time = Some(now)]
    /\ ret' = [op |-> "start"]
    /\ UNCHANGED << study_items, session_history, session_stats, now, advances,
                    file_vars >>
    /\ UNCHANGED session_log
    /\ UNCHANGED practice_vars
    /\ UNCHANGED << ui_vars, manager_vars >>

\* complete(user_input), lines 26-41: an exception leaves the challenge as the
\* lines before it made it
complete(user_input) ==
    /\ current_challenge # None
    /\ LET stamped == [current_challenge EXCEPT !.end_time = Some(now),
                                               !.user_input = user_input,
                                               !.completed = TRUE]
           accuracy == _calculate_accuracy(stamped.study_item.answer, user_input)
           scored == [stamped EXCEPT !.accuracy = accuracy]
           wpm == WordsPerMinute(scored)
           timed == [scored EXCEPT !.wpm = wpm]
       IN  IF Raised(accuracy)
           THEN /\ current_challenge' = stamped
                /\ ret' = [op |-> "complete", raised |-> TRUE]
           ELSE IF Raised(wpm)
           THEN /\ current_challenge' = scored
                /\ ret' = [op |-> "complete", raised |-> TRUE]
           ELSE /\ current_challenge' = timed
                /\ ret' = [op |-> "complete", raised |-> FALSE,
                           results |-> get_results(timed),
                           started |-> ~IsNone(timed.start_time)]
    /\ UNCHANGED << study_items, session_history, session_stats, now, advances,
                    file_vars >>
    /\ UNCHANGED session_log
    /\ UNCHANGED practice_vars
    /\ UNCHANGED << ui_vars, manager_vars >>

get_results_call ==
    /\ current_challenge # None
    /\ ret' = [op |-> "get_results", results |-> get_results(current_challenge)]
    /\ UNCHANGED << study_items, session_history, session_stats, now, advances,
                    challenge_vars, file_vars >>
    /\ UNCHANGED session_log
    /\ UNCHANGED practice_vars
    /\ UNCHANGED << ui_vars, manager_vars >>

(* --------------------------- SequentialPractice ------------------------ *)
\* the history variable nexts after one more get_next_item call
Counted(calls) == IF IsNone(calls) THEN None ELSE Some(Value(calls) + 1)

practice_frame ==
    /\ UNCHANGED << study_items, session_history, session_stats, session_log >>
    /\ UNCHANGED << challenge_vars, file_vars >>
    /\ UNCHANGED << ui_vars, manager_vars >>

\* ret remembers, for the calls that change the object, the object before the
\* call, and for go_back the count of get_next_item calls before it

\* SequentialPractice.add_items, lines 22-24
SequentialPractice_add_items(items) ==
    /\ practice' = [practice EXCEPT !.study_items = @ \o items]
    /\ nexts' = None
    /\ ret' = [op |-> "SequentialPractice.add_items"]
    /\ UNCHANGED << now, advances >>
    /\ practice_frame

\* start_session leaving the recorded results of the session before
SessionStarted_KeepsResults(p, t) ==
    [p EXCEPT !.current_index = 0, !.start_time = Some(t), !.end_time = None]

\* SequentialPractice.start_session, lines 26-31: the object after the call
SessionStarted(p, t) ==
    [p EXCEPT !.current_index = 0, !.session_results = << >>,
              !.start_time = Some(t), !.end_time = None]

SequentialPractice_start_session ==
    /\ practice' = SessionStarted(practice, now)
    /\ nexts' = Some(0)
    /\ ret' = [op |-> "SequentialPractice.start_session", before |-> practice]
    /\ UNCHANGED << now, advances >>
    /\ practice_frame

\* end_time.strftime("%Y-%m-%d %H:%M"): the time to the minute
strftime(t) == (t * SecondsPerTick) \div 60

\* the sum of result.get(key, 0) over the recorded results
RECURSIVE SumOfResults(_, _)
SumOfResults(results, key) ==
    IF results = << >> THEN 0
    ELSE (IF key \in DOMAIN Head(results) THEN Head(results)[key] ELSE 0)
         + SumOfResults(Tail(results), key)

\* lines 37-65 of end_session: the summary; average_accuracy in units of
\* 1/PerfScale
PracticeSummary(p, end_time) ==
    LET duration_minutes ==
            IF ~IsNone(p.start_time)
            THEN Quotient((end_time - Value(p.start_time)) * SecondsPerTick, 60)
            ELSE Zero
        total_items == Len(p.session_results)
    IN  IF total_items = 0
        THEN [duration_minutes |-> duration_minutes, items_completed |-> 0,
              average_accuracy |-> Zero, average_wpm |-> Zero,
              completion_percentage |-> Zero, date |-> strftime(end_time)]
        ELSE [duration_minutes |-> duration_minutes,
              items_completed |-> total_items,
              average_accuracy |->
                  Divide(SumOfResults(p.session_results, "accuracy"), total_items),
              average_wpm |->
                  Divide(SumOfResults(p.session_results, "wpm"), total_items),
              completion_percentage |->
                  IF p.study_items # << >>
                  THEN Divide(total_items * 100, Len(p.study_items)) ELSE Zero,
              date |-> strftime(end_time)]

\* SequentialPractice.end_session, lines 33-65
SequentialPractice_end_session ==
    /\ practice' = [practice EXCEPT !.end_time = Some(now)]
    /\ ret' = [op |-> "SequentialPractice.end_session",
               summary |-> PracticeSummary(practice', now)]
    /\ UNCHANGED << now, advances, nexts >>
    /\ practice_frame

\* get_next_item returning the item after the cursor's
NextOf_SkipsOne(p) ==
    IF p.study_items = << >> \/ p.current_index >= Len(p.study_items)
    THEN [item |-> None, practice |-> p]
    ELSE [item |-> Some(p.study_items[Min(p.current_index + 2, Len(p.study_items))]),
          practice |-> [p EXCEPT !.current_index = @ + 1]]

\* SequentialPractice.get_next_item, lines 67-74: the item returned and the
\* object after the call; the list is indexed from 0 in Python, from 1 here
NextOf(p) ==
    IF p.study_items = << >> \/ p.current_index >= Len(p.study_items)
    THEN [item |-> None, practice |-> p]
    ELSE [item |-> Some(p.study_items[p.current_index + 1]),
          practice |-> [p EXCEPT !.current_index = @ + 1]]

SequentialPractice_get_next_item ==
    /\ practice' = NextOf(practice).practice
    /\ nexts' = Counted(nexts)
    /\ ret' = [op |-> "SequentialPractice.get_next_item",
               item |-> NextOf(practice).item]
    /\ UNCHANGED << now, advances >>
    /\ practice_frame

\* SequentialPractice.peek_progress, lines 76-78
peek_progress ==
    /\ ret' = [op |-> "peek_progress",
               progress |-> << practice.current_index, Len(practice.study_items) >>]
    /\ UNCHANGED << now, advances, practice_vars >>
    /\ practice_frame

\* SequentialPractice.record_result, lines 80-82
record_result(result) ==
    /\ practice' = [practice EXCEPT !.session_results = Append(@, result)]
    /\ ret' = [op |-> "record_result"]
    /\ UNCHANGED << now, advances, nexts >>
    /\ practice_frame

\* SequentialPractice.restart, lines 84-86
restart ==
    /\ practice' = [practice EXCEPT !.current_index = 0]
    /\ nexts' = None
    /\ ret' = [op |-> "restart"]
    /\ UNCHANGED << now, advances >>
    /\ practice_frame

\* the sequences that hold the elements of s, each as often as s does
Orders(s) ==
    { [i \in 1..Len(s) |-> s[f[i]]] :
        f \in { g \in [1..Len(s) -> 1..Len(s)] :
                  \A i, j \in 1..Len(s) : g[i] = g[j] => i = j } }

\* shuffle_remaining shuffling the whole list
Shuffled_WholeList(p) ==
    IF p.current_index < Len(p.study_items)
    THEN { [p EXCEPT !.study_items = all] : all \in Orders(p.study_items) }
    ELSE { p }

\* SequentialPractice.shuffle_remaining, lines 88-93: the objects the call may
\* leave, one for each order random.shuffle may give the slice
Shuffled(p) ==
    IF p.current_index < Len(p.study_items)
    THEN { [p EXCEPT !.study_items =
                        SubSeq(@, 1, p.current_index) \o remaining] :
             remaining \in Orders(SubSeq(p.study_items,
                                               p.current_index + 1,
                                               Len(p.study_items))) }
    ELSE { p }

shuffle_remaining ==
    /\ practice' \in Shuffled(practice)
    /\ nexts' = None
    /\ ret' = [op |-> "shuffle_remaining", before |-> practice]
    /\ UNCHANGED << now, advances >>
    /\ practice_frame

\* skip_item without the test of the cursor
Skipped_NoGuard(p) == [p EXCEPT !.current_index = @ + 1]

\* SequentialPractice.skip_item, lines 105-108: the object after the call
Skipped(p) ==
    IF p.current_index < Len(p.study_items)
    THEN [p EXCEPT !.current_index = @ + 1]
    ELSE p

skip_item ==
    /\ practice' = Skipped(practice)
    /\ nexts' = None
    /\ ret' = [op |-> "skip_item", before |-> practice]
    /\ UNCHANGED << now, advances >>
    /\ practice_frame

\* go_back moving the cursor back by one
WentBack_ByOne(p) ==
    IF p.current_index > 1
    THEN NextOf([p EXCEPT !.current_index = @ - 1])
    ELSE [item |-> None, practice |-> p]

\* SequentialPractice.go_back, lines 110-115: the item returned and the object
\* after the call
WentBack(p) ==
    IF p.current_index > 1
    THEN NextOf([p EXCEPT !.current_index = @ - 2])
    ELSE [item |-> None, practice |-> p]

go_back ==
    /\ practice' = WentBack(practice).practice
    /\ nexts' = None
    /\ ret' = [op |-> "go_back", item |-> WentBack(practice).item,
               after |-> nexts]
    /\ UNCHANGED << now, advances >>
    /\ practice_frame

\* SequentialPractice.items_left, lines 117-119
ItemsLeft(p) == Max(0, Len(p.study_items) - p.current_index)

items_left ==
    /\ ret' = [op |-> "items_left", left |-> ItemsLeft(practice)]
    /\ UNCHANGED << now, advances, practice_vars >>
    /\ practice_frame

\* TypingChallenge(item) followed by start(), lines 101-102 of
\* sequential_practice.py and 13-24 of challenge_generator.py
Started(item, t) ==
    [study_item |-> item, start_time |-> Some(t), end_time |-> None,
     user_input |-> << >>, accuracy |-> Zero, wpm |-> Zero,
     completed |-> FALSE]

\* SequentialPractice.get_challenge_for_current_item, lines 95-103: the
\* challenge returned. study_items[current_index - 1] is the last item of the
\* list when the cursor is 0, the index -1 of Python
ChallengeFor(p, t) ==
    IF p.study_items = << >> \/ p.current_index >= Len(p.study_items)
    THEN None
    ELSE Some(Started(p.study_items[IF p.current_index = 0
                                    THEN Len(p.study_items)
                                    ELSE p.current_index], t))

\* ret remembers the item that the call before, a get_next_item or a go_back,
\* returned
get_challenge_for_current_item ==
    /\ ret' = [op |-> "get_challenge_for_current_item",
               challenge |-> ChallengeFor(practice, now),
               item |-> IF ret.op \in {"SequentialPractice.get_next_item",
                                       "go_back"}
                        THEN ret.item ELSE None]
    /\ UNCHANGED << now, advances, practice_vars >>
    /\ practice_frame

(* -------------------------- SequentialPracticeUI ----------------------- *)
\* an item with the answer "a", as an extractor builds it
UiItem(id) ==
    [id |-> id, answer |-> << "a" >>, mastery |-> 0, last_studied |-> None,
     importance |-> 5, item_type |-> "key_concept"]

\* SequentialPractice(items), lines 15-20 of sequential_practice.py
SequentialPractice_init(items) ==
    [study_items |-> items, current_index |-> 0, session_results |-> << >>,
     start_time |-> None, end_time |-> None]

\* the challenge as the attribute current_challenge holds it
Held(challenge) == IF IsNone(challenge) THEN None ELSE Value(challenge)

\* lines 293-296 and 405-408: the buttons after an item was displayed
ButtonsForItem(u, current) ==
    [u EXCEPT !.submit_btn = TRUE, !.next_btn = FALSE,
              !.prev_btn = (current > 1), !.skip_btn = TRUE]

\* lines 421-450 of _end_practice, for the object itself: the timer flag is
\* cleared, the session ended and the practice area hidden
EndPractice(w, t) ==
    [w EXCEPT !.ui = [@ EXCEPT !.timer_running = FALSE, !.packed = FALSE],
              !.practice = [@ EXCEPT !.end_time = Some(t)],
              !.ended = TRUE]

\* _load_next_item, lines 258-299: w holds the practice object, the challenge,
\* the widgets and the displays so far; by names the handler that called it
LoadNext(w, by, t) ==
    LET next == NextOf(w.practice) IN
    IF IsNone(next.item) THEN EndPractice(w, t)
    ELSE [w EXCEPT
            !.practice = next.practice,
            !.challenge = Held(ChallengeFor(next.practice, t)),
            !.shown = Append(@, [item |-> Value(next.item), by |-> by]),
            !.ui = ButtonsForItem(@, next.practice.current_index)]

\* a number of the challenge as the tracker adds it up: in units of 1/scale
AsNumber(q, scale) == (q.num * scale) \div q.den

\* lines 429-432 of _end_practice: the results of the session handed to
\* learning_tracker.record_challenge_result, one after the other
RECURSIVE Transferred(_, _)
Transferred(tracker, results) ==
    IF results = << >> THEN tracker
    ELSE LET result == [item_id |-> Head(results).item_id,
                        accuracy |-> AsNumber(Head(results).accuracy, PerfScale),
                        wpm |-> AsNumber(Head(results).wpm, 1)]
         IN  Transferred(
               [session_stats |-> RecordedStats(tracker.session_stats, result),
                study_items |-> UpdatedItems(tracker.study_items, result.item_id,
                                             result.accuracy, tracker.now),
                session_history |-> UpdatedHistory(tracker.session_history,
                                                   tracker.study_items,
                                                   result.item_id,
                                                   result.accuracy, tracker.now),
                session_log |-> Logged(tracker.session_log, result),
                now |-> tracker.now],
               Tail(results))

\* the state the handler leaves: w for the object, and the tracker after the
\* results were handed to it when the handler ended the practice
Leaves(w, op) ==
    /\ practice' = w.practice
    /\ current_challenge' = w.challenge
    /\ ui' = w.ui
    /\ shown' = w.shown
    /\ timers' = IF w.ended /\ timers # << >>
                 THEN [timers EXCEPT ![Len(timers)].ended = TRUE]
                 ELSE timers
    /\ LET tracker ==
              IF w.ended
              THEN Transferred([session_stats |-> session_stats,
                                study_items |-> study_items,
                                session_history |-> session_history,
                                session_log |-> session_log, now |-> now],
                               w.practice.session_results)
              ELSE [session_stats |-> session_stats, study_items |-> study_items,
                    session_history |-> session_history,
                    session_log |-> session_log, now |-> now]
       IN  /\ session_stats' = tracker.session_stats
           /\ study_items' = tracker.study_items
           /\ session_history' = tracker.session_history
           /\ session_log' = tracker.session_log
    /\ ret' = [op |-> op, ended |-> w.ended]
    /\ UNCHANGED << now, advances, file_vars, manager_vars >>

\* the object as the handlers find it
World ==
    [practice |-> practice, challenge |-> current_challenge, ui |-> ui,
     shown |-> shown, ended |-> FALSE]

\* _start_practice, lines 181-242, with a file selected as the source: a new
\* SequentialPractice on the items of the file, shuffled when the option is
\* set, the session started, the first item loaded, and _start_timer, lines
\* 244-256: the flag set and a new thread started
_start_practice(items, shuffle) ==
    /\ \E shuffled \in (IF shuffle THEN Shuffled(SequentialPractice_init(items))
                        ELSE { SequentialPractice_init(items) }) :
          LET w == LoadNext([World EXCEPT
                               !.practice = SessionStarted(shuffled, now),
                               !.ui = [@ EXCEPT !.packed = TRUE],
                               !.shown = << >>],
                            "start", now)
          IN  /\ practice' = w.practice
              /\ current_challenge' = w.challenge
              /\ ui' = [w.ui EXCEPT !.timer_running = TRUE]
              /\ shown' = w.shown
    /\ timers' = Append(timers, [pc |-> "sleep", ended |-> FALSE])
    /\ nexts' = Some(1)
    /\ ret' = [op |-> "_start_practice", ended |-> FALSE]
    /\ UNCHANGED << study_items, session_history, session_stats, session_log >>
    /\ UNCHANGED << now, advances, file_vars, manager_vars >>

\* TypingChallenge.complete, lines 26-41 of challenge_generator.py, as a
\* function of the challenge: the challenge after the call and its results
CompletedChallenge(c, user_input, t) ==
    LET stamped == [c EXCEPT !.end_time = Some(t), !.user_input = user_input,
                             !.completed = TRUE]
        accuracy == _calculate_accuracy(stamped.study_item.answer, user_input)
        scored == [stamped EXCEPT !.accuracy = accuracy]
        wpm == WordsPerMinute(scored)
        timed == [scored EXCEPT !.wpm = wpm]
    IN  IF Raised(accuracy) THEN [raised |-> TRUE, challenge |-> stamped]
        ELSE IF Raised(wpm) THEN [raised |-> TRUE, challenge |-> scored]
        ELSE [raised |-> FALSE, challenge |-> timed,
              results |-> get_results(timed)]

\* _submit_answer, lines 327-352: nothing without a challenge; an exception
\* of complete leaves the handler before the result is recorded
_submit_answer(typed) ==
    /\ ui.packed /\ ui.submit_btn
    /\ IF current_challenge = None THEN Leaves(World, "_submit_answer")
       ELSE LET done == CompletedChallenge(current_challenge, typed, now) IN
            IF done.raised
            THEN Leaves([World EXCEPT !.challenge = done.challenge],
                        "_submit_answer")
            ELSE Leaves([World EXCEPT
                           !.challenge = done.challenge,
                           !.practice = [@ EXCEPT !.session_results =
                                           Append(@, done.results)],
                           !.ui = [@ EXCEPT !.submit_btn = FALSE,
                                            !.next_btn = TRUE,
                                            !.skip_btn = FALSE]],
                        "_submit_answer")
    /\ UNCHANGED nexts

\* _next_item, lines 370-372
_next_item ==
    /\ ui.packed /\ ui.next_btn
    /\ Leaves(LoadNext(World, "next", now), "_next_item")
    /\ nexts' = Counted(nexts)

\* _prev_item, lines 374-411
_prev_item ==
    /\ ui.packed /\ ui.prev_btn
    /\ LET back == WentBack(practice) IN
       IF IsNone(back.item)
       THEN Leaves([World EXCEPT !.practice = back.practice], "_prev_item")
       ELSE Leaves([World EXCEPT
                      !.practice = back.practice,
                      !.challenge = Held(ChallengeFor(back.practice, now)),
                      !.shown = Append(@, [item |-> Value(back.item),
                                           by |-> "prev"]),
                      !.ui = ButtonsForItem(@, back.practice.current_index)],
                   "_prev_item")
    /\ nexts' = None

\* _skip_item, lines 413-419
_skip_item ==
    /\ ui.packed /\ ui.skip_btn
    /\ Leaves(LoadNext([World EXCEPT !.practice = Skipped(@)], "skip", now),
              "_skip_item")
    /\ nexts' = None

\* _end_practice, lines 421-460, from the End Session button
_end_practice ==
    /\ ui.packed
    /\ Leaves(EndPractice(World, now), "_end_practice")
    /\ UNCHANGED nexts

\* one turn of the loop of update_timer, lines 248-254, in the thread that
\* the t-th _start_practice started: woken from time.sleep(1) it tests the
\* flag, and either ends or sets the elapsed time and sleeps again
update_timer(t) ==
    /\ t \in 1..Len(timers)
    /\ timers[t].pc = "sleep"
    /\ IF ui.timer_running
       THEN /\ ui' = IF ~IsNone(practice.start_time)
                     THEN [ui EXCEPT !.time_var =
                             (now - Value(practice.start_time)) * SecondsPerTick]
                     ELSE ui
            /\ UNCHANGED timers
       ELSE /\ timers' = [timers EXCEPT ![t].pc = "done"]
            /\ UNCHANGED ui
    /\ ret' = [op |-> "update_timer"]
    /\ UNCHANGED << study_items, session_history, session_stats, session_log >>
    /\ UNCHANGED << now, advances, challenge_vars, file_vars, practice_vars,
                    shown, manager_vars >>

(* ----------------------- the session manager --------------------------- *)
\* step_durations, line 107 of session_manager.py: the minutes of each of the
\* steps 0 to 5
step_durations == << 2, 5, 5, 3, 3, 2 >>

\* _go_to_step(step), lines 787-795: the session state after the call
GoneToStep(m, step, t) ==
    IF step < 0 \/ step > 5 THEN m
    ELSE [m EXCEPT !.current_step = step, !.step_start_time = Some(t)]

\* the session manager and its callbacks leave the rest alone
manager_frame ==
    /\ UNCHANGED << study_items, session_history, session_stats, session_log >>
    /\ UNCHANGED << now, advances, challenge_vars, practice_vars, ui_vars >>

\* _start_session, lines 725-753, with study items loaded and the start
\* button enabled: the session state is set, step 0 entered, and
\* _start_timer, lines 755-785, sets the flag and starts a thread
_start_session ==
    /\ ~manager.session_active
    /\ manager' = [GoneToStep([manager EXCEPT !.session_active = TRUE,
                                              !.current_step = 0,
                                              !.session_start_time = Some(now),
                                              !.step_start_time = Some(now)],
                              0, now)
                   EXCEPT !.timer_running = TRUE]
    /\ manager_timers' = Append(manager_timers, "sleep")
    /\ ret' = [op |-> "_start_session"]
    /\ UNCHANGED << after_queue, file_vars >>
    /\ manager_frame

\* the Continue button of the step on display, lines 244-601: the command
\* _go_to_step(k + 1) of the button in the frame of step k
_go_to_step(step) ==
    /\ manager.session_active
    /\ step = manager.current_step + 1
    /\ manager' = GoneToStep(manager, step, now)
    /\ ret' = [op |-> "_go_to_step", step |-> step]
    /\ UNCHANGED << after_queue, manager_timers, file_vars >>
    /\ manager_frame

\* the seconds since the step was entered exceed its limit and the grace
\* period, line 778
StepExpired(m, t) ==
    /\ ~IsNone(m.step_start_time)
    /\ (t - Value(m.step_start_time)) * SecondsPerTick
          > step_durations[m.current_step + 1] * 60 + 5

\* one turn of the loop of update_timer, lines 759-782, in the t-th thread:
\* it ends when the flag is cleared; otherwise, when the step on display has
\* expired and is not the last, it hands the main loop a callback
SessionManager_update_timer(t) ==
    /\ t \in 1..Len(manager_timers)
    /\ manager_timers[t] = "sleep"
    /\ IF ~manager.timer_running
       THEN /\ manager_timers' = [manager_timers EXCEPT ![t] = "done"]
            /\ UNCHANGED after_queue
       ELSE /\ after_queue' =
                  IF /\ ~IsNone(manager.session_start_time)
                     /\ StepExpired(manager, now)
                     /\ manager.current_step < 5
                  THEN after_queue + 1 ELSE after_queue
            /\ UNCHANGED manager_timers
    /\ ret' = [op |-> "SessionManager.update_timer"]
    /\ UNCHANGED << manager, file_vars >>
    /\ manager_frame

\* the main loop runs a callback of line 780:
\* lambda: self._go_to_step(self.current_step + 1), with the current_step of
\* the time it runs; ret remembers whether the step it left had expired
auto_advance ==
    /\ after_queue > 0
    /\ after_queue' = after_queue - 1
    /\ manager' = GoneToStep(manager, manager.current_step + 1, now)
    /\ ret' = [op |-> "auto_advance", from |-> manager.current_step,
               expired |-> StepExpired(manager, now)]
    /\ UNCHANGED << manager_timers, file_vars >>
    /\ manager_frame

\* _complete_session, lines 1403-1444, the button of step 5: the flag is
\* cleared, the progress saved and the session state reset
_complete_session ==
    /\ manager.session_active
    /\ manager.current_step = 5
    /\ manager' = [manager EXCEPT !.timer_running = FALSE,
                                  !.session_active = FALSE,
                                  !.current_step = 0]
    /\ progress_file' =
          Some([items |-> [i \in 1..Len(study_items) |-> to_dict(study_items[i])],
                session_history |-> session_history,
                metadata |-> [date_saved |-> isoformat(now),
                              total_items |-> Len(study_items)]])
    /\ ret' = [op |-> "_complete_session"]
    /\ UNCHANGED << after_queue, manager_timers >>
    /\ manager_frame

(* ------------------- the scheduler and its tracker --------------------- *)
Next ==
    \/ \E item \in SchedulerItems :
          /\ Len(study_items) < MaxItems
          /\ add_items(<< item >>)
    \/ get_next_item
    \/ \E item_id \in 1..(MaxItems + 1), performance \in Performances :
          /\ Len(session_history) < MaxUpdates
          /\ update_item_mastery(item_id, performance)
    \/ get_due_items
    \/ Advance(MaxAdvances)

Spec == Init /\ [][Next]_vars

(* ---------------- the tracker: sessions around the scheduler ----------- *)
NextTracker ==
    \/ \E item \in TrackerItems :
          /\ Len(study_items) < MaxTrackerItems
          /\ add_items(<< item >>)
    \/ get_next_item
    \/ get_due_items
    \/ get_learning_stats
    \/ \E item_id \in 1..(MaxTrackerItems + 1), performance \in {97} :
          /\ Len(session_history) < MaxTrackerUpdates
          /\ update_item_mastery(item_id, performance)
    \/ start_session
    \/ \E results \in TrackerResults :
          /\ Len(session_history) < MaxTrackerUpdates
          /\ session_stats.items_studied < MaxRecords
          /\ Len(session_log) < MaxRecords
          /\ record_challenge_result(results)
    \/ end_session
    \/ Advance(MaxTrackerAdvances)

SpecTracker == Init /\ [][NextTracker]_vars

(* ------------- one item, any mastery, any sequence of scores ----------- *)
NextUpdate ==
    \/ \E item \in AnyMasteryItems :
          /\ study_items = << >>
          /\ add_items(<< item >>)
    \/ \E performance \in DensePerformances :
          /\ Len(session_history) < MaxSteps
          /\ update_item_mastery(1, performance)

SpecUpdate == Init /\ [][NextUpdate]_vars

(* ------------------- the interval policy on its own -------------------- *)
\* every mastery from -0.5 to 1.5 in steps of 0.01
IntervalInputs == { (m * Scale) \div 100 : m \in -50..150 }

NextInterval ==
    \E mastery \in IntervalInputs : _calculate_interval_call(mastery)

SpecInterval == Init /\ [][NextInterval]_vars

(* ------------------------- one typing challenge ------------------------ *)
NextChallenge ==
    \/ \E study_item \in AnswerItems :
          /\ current_challenge = None
          /\ TypingChallenge_init(study_item)
    \/ start
    \/ /\ current_challenge # None
       /\ \E user_input \in UserInputs(current_challenge.study_item.answer) :
             complete(user_input)
    \/ get_results_call
    \/ ClockMoves({-1, 1}, MaxChallengeMoves)

SpecChallenge == Init /\ [][NextChallenge]_vars

(* ------------- the tracker and its progress file: save and load ------- *)
\* new items, each with a fresh id
ProgressItems ==
    { StudyItem(Len(study_items) + 1, 0, None, imp) : imp \in {1, 5} }

ProgressResults ==
    { [item_id |-> id, accuracy |-> a, wpm |-> 40] :
        id \in 1..(MaxProgressItems + 1), a \in {79, 80} }

NextProgress ==
    \/ \E item \in ProgressItems :
          /\ Len(study_items) < MaxProgressItems
          /\ add_items(<< item >>)
    \/ \E item_id \in 1..MaxProgressItems :
          /\ Len(session_history) < MaxProgressUpdates
          /\ update_item_mastery(item_id, 97)
    \/ \E results \in ProgressResults :
          /\ Len(session_history) < MaxProgressUpdates
          /\ Len(session_log) < MaxProgressUpdates
          /\ record_challenge_result(results)
    \/ save_progress
    \/ load_progress
    \/ get_next_item
    \/ get_due_items
    \/ get_learning_stats
    \/ start_session
    \/ end_session
    \/ Advance(MaxProgressAdvances)

SpecProgress == Init /\ [][NextProgress]_vars

(* ----------------- sequential practice through a collection ------------ *)
\* the items a caller hands to the practice: two different items, either of
\* which may come more than once
PracticeItems == { StudyItem(id, 0, None, 5) : id \in 1..2 }

\* the results a caller records: what TypingChallenge.get_results returns
PracticeResults ==
    { [item_id |-> 1, accuracy |-> a, wpm |-> 40] : a \in {50, 100} }

NextPractice ==
    \/ \E item \in PracticeItems :
          /\ Len(practice.study_items) < MaxPracticeItems
          /\ SequentialPractice_add_items(<< item >>)
    \/ SequentialPractice_start_session
    \/ SequentialPractice_end_session
    \/ /\ IF IsNone(nexts) THEN TRUE ELSE Value(nexts) < MaxPracticeCalls
       /\ SequentialPractice_get_next_item
    \/ peek_progress
    \/ \E result \in PracticeResults :
          /\ Len(practice.session_results) < MaxPracticeResults
          /\ record_result(result)
    \/ restart
    \/ shuffle_remaining
    \/ skip_item
    \/ go_back
    \/ items_left
    \/ get_challenge_for_current_item
    \/ ClockMoves({1}, MaxPracticeMoves)

SpecPractice == Init /\ [][NextPractice]_vars

(* ------------- loading a file the tracker may not have written --------- *)
\* the values a file may give the key last_studied of an item: the text of
\* the time 0, null, the empty string, a string of 9 characters that is no
\* date, the numbers 0 and 7
LastStudiedValues ==
    { isoformat(0), None, << "str", 0 >>, << "str", 9 >>, << "num", 0 >>,
      << "num", 7 >> }

\* the dicts a file may hold for the item with this id: a dict as to_dict
\* writes it with any of the values of last_studied, the same without the key
\* last_studied, a dict with the key id alone, and a dict whose item_type is
\* no value of the enum
FileDicts(id) ==
    { [id |-> id, item_type |-> "definition", importance |-> 1,
       mastery |-> Tenths(5), last_studied |-> value] :
         value \in LastStudiedValues }
    \cup { [id |-> id, item_type |-> "definition", importance |-> 1,
            mastery |-> Tenths(5)],
           [id |-> id],
           [id |-> id, item_type |-> "bogus", importance |-> 1,
            mastery |-> Tenths(5), last_studied |-> isoformat(0)] }

\* the lists of at most n such dicts, the k-th with the id k
RECURSIVE FileLists(_)
FileLists(n) ==
    IF n = 0 THEN { << >> }
    ELSE FileLists(n - 1)
         \cup { Append(dicts, dict) :
                  dicts \in { l \in FileLists(n - 1) : Len(l) = n - 1 },
                  dict \in FileDicts(n) }

\* one entry of a saved session_history
FileHistory ==
    << [item_id |-> 1, performance |-> 97, new_mastery |-> Tenths(5),
        timestamp |-> isoformat(0)] >>

\* the contents of a file the tracker did not write: no JSON text, a JSON
\* array, the empty JSON object, and objects with the keys items and
\* session_history
FileContents ==
    { [text |-> "{"], [array |-> << >>], [metadata |-> << >>] }
    \cup { [items |-> dicts, session_history |-> FileHistory] :
              dicts \in FileLists(MaxFileItems) }

\* the items of the load specification: new items, each with a fresh id
LoadItems ==
    { StudyItem(Len(study_items) + 1, 0, None, 5) }

NextLoad ==
    \/ \E item \in LoadItems :
          /\ Len(study_items) < MaxLoadItems
          /\ add_items(<< item >>)
    \/ \E item_id \in 1..MaxLoadItems :
          /\ Len(session_history) < MaxLoadUpdates
          /\ update_item_mastery(item_id, 97)
    \/ save_progress
    \/ \E content \in FileContents : file_written(content)
    \/ load_progress
    \/ get_next_item
    \/ get_due_items
    \/ Advance(MaxLoadAdvances)

SpecLoad == Init /\ [][NextLoad]_vars

(* ------------- the ids of the collection: lists, files, reloads -------- *)
\* the sequence has no two entries with the same id
DistinctIds(items) ==
    \A i, j \in 1..Len(items) : items[i].id = items[j].id => i = j

\* the lists a caller hands to load_study_items: one or two new items with
\* pairwise distinct ids, the ids being the caller's choice
IdLists ==
    { items \in UNION { [1..k -> { StudyItem(id, 0, None, 5) : id \in 1..MaxIds }] :
                           k \in 1..2 } :
        DistinctIds(items) }

\* the files the tracker did not write: lists of at most two dicts with any
\* of the ids
IdFiles ==
    { [items |-> dicts, session_history |-> << >>] :
        dicts \in UNION { [1..k -> { [id |-> id] : id \in 1..MaxIds }] :
                             k \in 0..2 } }

NextIds ==
    \/ \E items \in IdLists :
          /\ Len(study_items) + Len(items) <= MaxIdItems
          /\ add_items(items)
    \/ save_progress
    \/ \E content \in IdFiles : file_written(content)
    \/ load_progress
    \/ get_next_item

SpecIds == Init /\ [][NextIds]_vars

(* ------------- the session history: updates, saves, reloads ------------ *)
\* the files the tracker did not write: no JSON text, an object without the
\* key session_history, and objects with one item and a history of one entry
HistoryFiles ==
    { [text |-> "{"], [items |-> << >>] }
    \cup { [items |-> << dict >>, session_history |-> FileHistory] :
              dict \in FileDicts(1) }

NextHistory ==
    \/ \E item \in { StudyItem(Len(study_items) + 1, 0, None, 5) } :
          /\ Len(study_items) < MaxHistoryItems
          /\ add_items(<< item >>)
    \/ \E item_id \in 1..(MaxHistoryItems + 1) :
          /\ Len(session_history) < MaxHistory
          /\ update_item_mastery(item_id, 97)
    \/ \E item_id \in 1..(MaxHistoryItems + 1) :
          /\ Len(session_history) < MaxHistory
          /\ session_stats.items_studied < 1
          /\ record_challenge_result([item_id |-> item_id, accuracy |-> 80,
                                      wpm |-> 40])
    \/ save_progress
    \/ \E content \in HistoryFiles : file_written(content)
    \/ load_progress
    \/ get_next_item
    \/ Advance(MaxHistoryAdvances)

SpecHistory == Init /\ [][NextHistory]_vars

(* ------------- the closed loop: next item, attempt, update ------------- *)
\* the pool of the loop: new items, never studied and of mastery 0.0, each
\* with a fresh id and an importance of 1, 5 or 10
LoopItems ==
    { StudyItem(Len(study_items) + 1, 0, None, imp) : imp \in {1, 5, 10} }

\* the pool is built first; then get_next_item, in the branch that returns
\* the highest priority item, alternates with the update of the item it
\* returned, the clock moving between an update and the next call, by half a
\* minute or by the longest step that keeps MaxLoopAdvances moves within the
\* day
NextLoop ==
    \/ \E item \in LoopItems :
          /\ Len(study_items) < MaxLoopItems
          /\ ret.op \in {"init", "add_items"}
          /\ add_items(<< item >>)
    \/ /\ study_items # << >>
       /\ ret.op \in {"add_items", "update_item_mastery", "clock"}
       /\ get_next_item
       /\ ~ret'.random
    \/ \E performance \in Performances :
          /\ ret.op = "get_next_item"
          /\ Len(session_history) < MaxLoopUpdates
          /\ update_item_mastery(study_items[ret.item].id, performance)
    \/ /\ ret.op \in {"add_items", "update_item_mastery", "clock"}
       /\ ClockMoves({1, (TicksPerDay - 1) \div MaxLoopAdvances}, MaxLoopAdvances)

SpecLoop == Init /\ [][NextLoop]_vars

(* ------------- the sequential practice UI and its timer threads -------- *)
\* the collections read from the selected file: one to MaxUiItems items
UiLists == { [i \in 1..n |-> UiItem(i)] : n \in 1..MaxUiItems }

NextUi ==
    \/ \E items \in UiLists, shuffle \in BOOLEAN :
          /\ Len(timers) < MaxSessions
          /\ _start_practice(items, shuffle)
    \/ \E typed \in { << "a" >>, << "b" >> } :
          /\ Len(practice.session_results) < MaxUiResults
          /\ _submit_answer(typed)
    \/ Len(shown) < MaxShown /\ _next_item
    \/ Len(shown) < MaxShown /\ _prev_item
    \/ Len(shown) < MaxShown /\ _skip_item
    \/ _end_practice
    \/ \E t \in 1..MaxSessions : update_timer(t)
    \/ ClockMoves({1}, MaxUiMoves)

SpecUi == Init /\ [][NextUi]_vars

\* a timer thread that can take a turn of its loop takes it: the thread
\* sleeps for a second at a time
SpecUiFair ==
    SpecUi /\ \A t \in 1..MaxSessions : WF_vars(update_timer(t))

(* ------------- the session manager and its timer threads --------------- *)
\* the clock moves by half a minute, by the two and a half minutes that
\* expire the shortest step, or by the five and a half that expire any
NextManager ==
    \/ /\ Len(manager_timers) < MaxManagerSessions
       /\ _start_session
    \/ \E step \in 1..5 : _go_to_step(step)
    \/ /\ after_queue < MaxCallbacks \/ ~manager.timer_running
       /\ \E t \in 1..MaxManagerSessions : SessionManager_update_timer(t)
    \/ auto_advance
    \/ _complete_session
    \/ ClockMoves({1, 5, 11}, MaxManagerMoves)

SpecManager == Init /\ [][NextManager]_vars

(* ================================ claims =============================== *)

\* C1: after any sequence of update_item_mastery calls on an item, whatever the
\* performance scores (negative and above 1 included), the mastery of the item
\* is in [0.0, 1.0], and every call runs to its end: the item is stamped with
\* the time of the call and the history records the mastery it now has.
C1_MasteryInRange ==
    /\ \A i \in 1..Len(study_items) :
          ~IsNone(study_items[i].last_studied) =>
             /\ study_items[i].mastery >= 0
             /\ study_items[i].mastery <= Scale
    /\ (ret.op = "update_item_mastery" /\ ret.item # 0) =>
          /\ study_items[ret.item].last_studied = Some(now)
          /\ session_history[Len(session_history)].new_mastery
                = study_items[ret.item].mastery

\* an item that came with mastery below 0 was clamped to 0.0 by a score of
\* -0.5 and has now been updated with a score of 1.5
C1_Witness ==
    /\ ret.op = "update_item_mastery"
    /\ ret.item = 1
    /\ ret.performance = 150
    /\ Len(session_history) >= 2
    /\ session_history[1].performance = -50
    /\ session_history[1].new_mastery = 0
    /\ study_items[1].mastery = (3 * Scale) \div 10

\* C2: update_item_mastery computes the new mastery by the four-tier rule, a
\* tier boundary belonging to the higher tier: score >= 0.95 gives
\* mastery*0.7 + 0.3, [0.80, 0.95) gives mastery*0.8 + 0.18, [0.60, 0.80) gives
\* mastery*0.8 + 0.14 and < 0.60 gives mastery*0.5 + 0.15, for every mastery
\* in [0, 1]; mastery 0.5 with score 0.97 becomes 0.65.
C2_FourTierRule ==
    [][ (ret'.op = "update_item_mastery" /\ ret'.item # 0) =>
          LET old == study_items[ret'.item].mastery
              new == study_items'[ret'.item].mastery
              score == ret'.performance
          IN  /\ (old >= 0 /\ old <= Scale) =>
                    /\ score >= 95 => 10 * new = 7 * old + 3 * Scale
                    /\ (score >= 80 /\ score < 95) =>
                          100 * new = 80 * old + 18 * Scale
                    /\ (score >= 60 /\ score < 80) =>
                          100 * new = 80 * old + 14 * Scale
                    /\ score < 60 => 100 * new = 50 * old + 15 * Scale
              /\ (2 * old = Scale /\ score = 97) => 100 * new = 65 * Scale
      ]_vars

\* the scenario: an item of mastery 0.5 has been updated with the score 0.97
C2_Witness ==
    /\ ret.op = "update_item_mastery"
    /\ ret.performance = 97
    /\ Len(session_history) = 1
    /\ 100 * study_items[1].mastery = 65 * Scale
    /\ session_history[1].new_mastery = study_items[1].mastery

(* The priority of section 4.4, as the fraction it is: the time factor is     *)
(* 10/1 for an item never studied and days/idealInterval otherwise, and two   *)
(* priorities are compared by cross-multiplying the (positive) denominators.  *)
IdealInterval(mastery) ==
    CASE mastery * 10 < 3 * Scale -> 1
      [] mastery * 10 >= 3 * Scale /\ mastery * 10 < 5 * Scale -> 3
      [] mastery * 10 >= 5 * Scale /\ mastery * 10 < 7 * Scale -> 7
      [] mastery * 10 >= 7 * Scale /\ mastery * 10 < 9 * Scale -> 14
      [] mastery * 10 >= 9 * Scale -> 30

NeverStudied(item) == IsNone(item.last_studied)

DaysSinceLastStudied(item) == (now - Value(item.last_studied)) \div TicksPerDay

TimeFactorOver(item) ==
    IF NeverStudied(item) THEN 10 ELSE DaysSinceLastStudied(item)

TimeFactorUnder(item) ==
    IF NeverStudied(item) THEN 1 ELSE IdealInterval(item.mastery)

PriorityTimes(item, denominator) ==
    TimeFactorOver(item) * (Scale - item.mastery) * item.importance * denominator

PriorityAtLeast(a, b) ==
    PriorityTimes(a, TimeFactorUnder(b)) >= PriorityTimes(b, TimeFactorUnder(a))

PriorityEqual(a, b) ==
    PriorityTimes(a, TimeFactorUnder(b)) = PriorityTimes(b, TimeFactorUnder(a))

\* a get_next_item call that took the ranked branch on a non-empty pool has
\* just returned
RankedCallReturned ==
    /\ ret.op = "get_next_item"
    /\ ~ret.random
    /\ study_items # << >>

\* C3: in the non-random branch get_next_item returns an item whose priority
\* timeFactor * (1.0 - mastery) * importance is maximal over the whole pool,
\* with timeFactor 10.0 for an item never studied and
\* daysSinceLastStudied / idealInterval(mastery) otherwise.
C3_ReturnsMaximalPriority ==
    RankedCallReturned =>
       /\ ret.item \in 1..Len(study_items)
       /\ \A j \in 1..Len(study_items) :
             PriorityAtLeast(study_items[ret.item], study_items[j])

\* an overdue studied item, last in a pool of three, is returned ahead of an
\* item that was never studied
C3_Witness ==
    /\ RankedCallReturned
    /\ Len(study_items) = 3
    /\ ret.item = 3
    /\ ~NeverStudied(study_items[3])
    /\ NeverStudied(study_items[1])
    /\ ~PriorityAtLeast(study_items[1], study_items[3])
    /\ ~PriorityAtLeast(study_items[2], study_items[3])

\* C4: get_next_item returns None if and only if the pool is empty; on a
\* non-empty pool it returns an item, in either branch.
C4_NoneIffEmpty ==
    ret.op = "get_next_item" => (ret.item = 0 <=> study_items = << >>)

\* get_next_item has returned None on the empty pool
C4_Witness ==
    /\ ret.op = "get_next_item"
    /\ ret.item = 0
    /\ study_items = << >>
    /\ now > 0

\* C5: outside the random override the selection is deterministic: a ranked
\* call that follows a ranked call on the same pool at the same time returns
\* the same item, and among the items that share the top priority the one
\* earliest in the collection is returned.
C5_DeterministicEarliest ==
    RankedCallReturned =>
       /\ ret.before # << >> => ret.before[1] = ret.item
       /\ \A j \in 1..Len(study_items) :
             PriorityEqual(study_items[j], study_items[ret.item]) => ret.item <= j

\* two ranked calls in a row returned the second of three items, which shares
\* the top priority with the third
C5_Witness ==
    /\ RankedCallReturned
    /\ Len(study_items) = 3
    /\ ret.item = 2
    /\ ret.before = << 2 >>
    /\ PriorityEqual(study_items[3], study_items[2])
    /\ ~PriorityAtLeast(study_items[1], study_items[2])

\* the pool of the scenario: item k was never studied, has mastery 0.0 and
\* importance 5, every other item has mastery 0.9 and was last studied now
NewAmongMastered(k) ==
    /\ k \in 1..Len(study_items)
    /\ NeverStudied(study_items[k])
    /\ study_items[k].mastery = 0
    /\ study_items[k].importance = 5
    /\ \A j \in 1..Len(study_items) :
          j # k => /\ 10 * study_items[j].mastery = 9 * Scale
                   /\ study_items[j].last_studied = Some(now)

\* C6: in a pool of one never-studied item of mastery 0.0 and importance 5
\* whose other items all have mastery 0.9 and were last studied at the current
\* time, the non-random branch returns the never-studied item, wherever it is
\* in the collection.
C6_NewItemWins ==
    RankedCallReturned =>
       \A k \in 1..Len(study_items) : NewAmongMastered(k) => ret.item = k

\* the never-studied item is the last of three and is returned
C6_Witness ==
    /\ RankedCallReturned
    /\ Len(study_items) = 3
    /\ NewAmongMastered(3)
    /\ ret.item = 3

\* C7: in the ranked branch and in the exploration override alike the item
\* get_next_item returns is a member of the current pool, and for a pool of
\* size 1 every call returns that single item.
C7_ReturnsMember ==
    (ret.op = "get_next_item" /\ study_items # << >>) =>
       /\ ret.item \in 1..Len(study_items)
       /\ Len(study_items) = 1 => ret.item = 1

\* the override returned an item of the pool that is not the top ranked one
C7_Witness ==
    /\ ret.op = "get_next_item"
    /\ ret.random
    /\ Len(study_items) = 3
    /\ ret.item \in 1..3
    /\ ~PriorityAtLeast(study_items[ret.item], study_items[1])

\* C8: only update_item_mastery (and record_challenge_result, which calls it)
\* writes an item's mastery and lastStudied: get_next_item, get_due_items,
\* get_learning_stats, start_session and end_session leave every item, the
\* order of the collection and the session history as they were.
C8_ReadersWriteNothing ==
    [][ /\ ret'.op \in {"get_next_item", "get_due_items", "get_learning_stats",
                        "start_session", "end_session"} =>
              /\ study_items' = study_items
              /\ session_history' = session_history
        /\ (\E i \in 1..Len(study_items) :
               \/ i > Len(study_items')
               \/ study_items'[i].mastery # study_items[i].mastery
               \/ study_items'[i].last_studied # study_items[i].last_studied) =>
              ret'.op \in {"update_item_mastery", "record_challenge_result"}
      ]_vars

\* a ranked get_next_item has returned the second of two items, the first
\* having been updated and the history holding that update
C8_Witness ==
    /\ RankedCallReturned
    /\ Len(study_items) = 2
    /\ ret.item = 2
    /\ Len(session_history) >= 1
    /\ ~NeverStudied(study_items[1])
    /\ ~IsNone(session_stats.start_time)

\* C9: _calculate_interval is the step function of the interval policy:
\* mastery < 0.3 gives 1 day, [0.3, 0.5) gives 3, [0.5, 0.7) gives 7,
\* [0.7, 0.9) gives 14 and mastery >= 0.9 gives 30; the result is at least 1
\* and never decreases when the mastery increases.
C9_IntervalSteps ==
    ret.op = "_calculate_interval" =>
       LET m == ret.mastery IN
       /\ 10 * m < 3 * Scale => ret.interval = 1
       /\ (10 * m >= 3 * Scale /\ 10 * m < 5 * Scale) => ret.interval = 3
       /\ (10 * m >= 5 * Scale /\ 10 * m < 7 * Scale) => ret.interval = 7
       /\ (10 * m >= 7 * Scale /\ 10 * m < 9 * Scale) => ret.interval = 14
       /\ 10 * m >= 9 * Scale => ret.interval = 30
       /\ ret.interval >= 1
       /\ (ret.before # << >> /\ ret.before[1] <= m) =>
             ret.before[2] <= ret.interval

\* the interval of mastery 0.9 is 30, right after that of 0.89 was 14
C9_Witness ==
    /\ ret.op = "_calculate_interval"
    /\ 10 * ret.mastery = 9 * Scale
    /\ ret.interval = 30
    /\ ret.before = << (89 * Scale) \div 100, 14 >>

\* C10: get_due_items returns exactly the items that were never studied or
\* whose days since the last study are at least idealInterval(mastery), in
\* collection order, and no other item.
C10_DueItemsExact ==
    ret.op = "get_due_items" =>
       /\ \A i \in 1..Len(study_items) :
             (\E k \in 1..Len(ret.due) : ret.due[k] = i) <=>
                \/ NeverStudied(study_items[i])
                \/ DaysSinceLastStudied(study_items[i])
                      >= IdealInterval(study_items[i].mastery)
       /\ \A k \in 1..Len(ret.due) : ret.due[k] \in 1..Len(study_items)
       /\ \A k \in 1..(Len(ret.due) - 1) : ret.due[k] < ret.due[k + 1]

\* of three items the first is due exactly on its interval, the second was
\* studied and is not due, the third was never studied
C10_Witness ==
    /\ ret.op = "get_due_items"
    /\ Len(study_items) = 3
    /\ ret.due = << 1, 3 >>
    /\ ~NeverStudied(study_items[1])
    /\ DaysSinceLastStudied(study_items[1]) = IdealInterval(study_items[1].mastery)
    /\ ~NeverStudied(study_items[2])
    /\ NeverStudied(study_items[3])

\* a step that updates an item of the collection, whose mastery is in [0, 1],
\* with a score below 0.60
PoorUpdateStep ==
    /\ ret'.op = "update_item_mastery"
    /\ ret'.item # 0
    /\ ret'.performance * 10 < 6 * PerfScale
    /\ study_items[ret'.item].mastery >= 0
    /\ study_items[ret'.item].mastery <= Scale

\* C12 as stated: an update with a score below 0.60 leaves the mastery of an
\* item whose mastery is in [0, 1] less than or equal to its value before.
C12_PoorNeverRaises ==
    [][ PoorUpdateStep =>
           study_items'[ret'.item].mastery <= study_items[ret'.item].mastery
      ]_vars

\* C12, amended: an update with a score below 0.60 leaves a mastery in
\* [0.3, 1] less than or equal to its value before (equal only at 0.3,
\* the target of the poor tier), and raises a mastery in [0, 0.3) to a value
\* that is still below 0.3.
C12_PoorLowersAboveTarget ==
    [][ PoorUpdateStep =>
           LET old == study_items[ret'.item].mastery
               new == study_items'[ret'.item].mastery
           IN  /\ 10 * old >= 3 * Scale => new <= old
               /\ 10 * old > 3 * Scale => new < old
               /\ 10 * old < 3 * Scale => (new > old /\ 10 * new < 3 * Scale)
      ]_vars

\* an item raised to 0.65 by a score of 0.97 has dropped to 0.475 on a score
\* of 0.59
C12_Witness ==
    /\ ret.op = "update_item_mastery"
    /\ ret.performance = 59
    /\ Len(session_history) = 2
    /\ 100 * session_history[1].new_mastery = 65 * Scale
    /\ 1000 * study_items[1].mastery = 475 * Scale

(* The typing challenge.  A complete() call that returned normally has just   *)
(* been made; its results hold the expected answer, the typed text and the    *)
(* two metrics.  Two numbers kept as fractions are compared by                *)
(* cross-multiplication.                                                      *)
Completed == ret.op = "complete" /\ ~ret.raised

Equals(q, num, den) == q.num * den = num * q.den

\* the positions up to the end of the shorter text where the typed character
\* is the expected one
MatchingPositions(actual, expected) ==
    { i \in 1..Len(expected) : i <= Len(actual) /\ actual[i] = expected[i] }

\* the whitespace-delimited tokens of a text, counted by their first characters
WordCount(text) ==
    Cardinality({ i \in 1..Len(text) :
                    /\ text[i] # " "
                    /\ (i = 1 \/ text[i - 1] = " ") })

\* the seconds between start() and the complete() that has just returned
ElapsedSeconds == total_seconds(current_challenge.start_time,
                                current_challenge.end_time)

\* C13: for a non-empty expected answer the accuracy is the number of
\* positions i < min(len(actual), len(expected)) with actual[i] = expected[i],
\* divided by len(expected); the characters of actual beyond len(expected) do
\* not change it, an empty actual gives 0, and the result is in [0, 1].
C13_AccuracyIsMatchShare ==
    (ret.op = "complete" /\ current_challenge.study_item.answer # << >>) =>
       /\ ~ret.raised
       /\ LET expected == ret.results.expected
              actual == ret.results.actual
              accuracy == ret.results.accuracy
          IN  /\ expected = current_challenge.study_item.answer
              /\ Equals(accuracy, Cardinality(MatchingPositions(actual, expected)),
                        Len(expected))
              /\ Len(actual) > Len(expected) =>
                    accuracy = _calculate_accuracy(
                                   expected, SubSeq(actual, 1, Len(expected)))
              /\ actual = << >> => Equals(accuracy, 0, 1)
              /\ accuracy.den > 0
              /\ accuracy.num >= 0
              /\ accuracy.num <= accuracy.den

\* "aa" was expected and "aba" typed: one of the two positions matches, and
\* the third character typed counts for nothing
C13_Witness ==
    /\ Completed
    /\ ret.results.expected = << "a", "a" >>
    /\ ret.results.actual = << "a", "b", "a" >>
    /\ Equals(ret.results.accuracy, 1, 2)

\* C14: typing exactly the expected answer gives accuracy 1.0, for every
\* non-empty expected text and every positive elapsed time.
C14_ExactAnswerIsPerfect ==
    (/\ ret.op = "complete"
     /\ current_challenge.study_item.answer # << >>
     /\ current_challenge.user_input = current_challenge.study_item.answer
     /\ ~IsNone(current_challenge.start_time)
     /\ ElapsedSeconds > 0) =>
       /\ ~ret.raised
       /\ Equals(ret.results.accuracy, 1, 1)
       /\ Equals(current_challenge.accuracy, 1, 1)

\* a two-word answer was typed exactly, a minute after the start
C14_Witness ==
    /\ Completed
    /\ ret.results.expected = << "a", " ", "a" >>
    /\ ret.results.actual = ret.results.expected
    /\ ret.started
    /\ ElapsedSeconds = 60
    /\ Equals(ret.results.accuracy, 1, 1)

\* C15: when the expected answer is empty the accuracy is 1.0 for every typed
\* input, empty or not, and the evaluation does not raise.
C15_EmptyExpectedIsPerfect ==
    (ret.op = "complete" /\ current_challenge.study_item.answer = << >>) =>
       /\ ~ret.raised
       /\ Equals(ret.results.accuracy, 1, 1)
       /\ ret.results.actual = current_challenge.user_input

\* nothing was expected and three characters were typed
C15_Witness ==
    /\ Completed
    /\ ret.results.expected = << >>
    /\ Len(ret.results.actual) = 3
    /\ Equals(ret.results.accuracy, 1, 1)

\* C16: the wpm of a completed challenge is the whitespace-delimited word
\* count of the expected answer divided by the elapsed minutes (2 words in 30
\* seconds give 4.0); when the elapsed time is zero or negative, or the
\* challenge was completed without having been started, the wpm is 0, and
\* complete() does not raise.
C16_WordsPerMinute ==
    ret.op = "complete" =>
       /\ ~ret.raised
       /\ LET wpm == ret.results.wpm
              words == WordCount(ret.results.expected)
          IN  IF ret.started /\ ElapsedSeconds > 0
              THEN /\ Equals(wpm, words * 60, ElapsedSeconds)
                   /\ (words = 2 /\ ElapsedSeconds = 30) => Equals(wpm, 4, 1)
              ELSE Equals(wpm, 0, 1)

\* the scenario: an answer of two words, completed 30 seconds after the start
C16_Witness ==
    /\ Completed
    /\ ret.started
    /\ ElapsedSeconds = 30
    /\ ret.results.expected = << "a", " ", "a" >>
    /\ Equals(ret.results.wpm, 4, 1)

(* The tracker's updates and sessions.                                        *)
\* a step that updates an item of the collection: an update_item_mastery call,
\* or the record_challenge_result call that makes it, for an id the collection
\* holds
UpdateStep ==
    /\ ret'.op \in {"update_item_mastery", "record_challenge_result"}
    /\ ret'.item # 0

Studied(item) == ~IsNone(item.last_studied)

\* C11 as stated: every update sets the item's lastStudied to the time of the
\* update, and once an item's lastStudied is set no later operation of the
\* tracker makes it absent again or moves it backwards in time.
C11_LastStudiedNeverGoesBack ==
    [][ /\ UpdateStep => study_items'[ret'.item].last_studied = Some(now')
        /\ \A i \in 1..Len(study_items), j \in 1..Len(study_items') :
              (study_items'[j].id = study_items[i].id /\ Studied(study_items[i])) =>
                 /\ Studied(study_items'[j])
                 /\ Value(study_items'[j].last_studied)
                       >= Value(study_items[i].last_studied)
      ]_vars

\* C11, amended: every update sets the item's lastStudied to the time of the
\* update, and once an item's lastStudied is set no later operation of the
\* tracker other than load_progress makes it absent again or moves it
\* backwards in time (the clock itself not being set back); load_progress
\* replaces the items by those of the file.
C11_LastStudiedUntilLoad ==
    [][ /\ UpdateStep => study_items'[ret'.item].last_studied = Some(now')
        /\ ret'.op # "load_progress" =>
              \A i \in 1..Len(study_items) :
                 Studied(study_items[i]) =>
                    /\ i <= Len(study_items')
                    /\ study_items'[i].id = study_items[i].id
                    /\ Studied(study_items'[i])
                    /\ Value(study_items'[i].last_studied)
                          >= Value(study_items[i].last_studied)
      ]_vars

\* an item studied at time 0 has been studied again after the clock moved, its
\* progress having been saved and loaded in between
C11_Witness ==
    /\ ret.op = "record_challenge_result"
    /\ ret.item = 1
    /\ now > 0
    /\ study_items[1].last_studied = Some(now)
    /\ Len(session_history) = 2
    /\ session_history[1].timestamp = isoformat(0)
    /\ ~IsNone(progress_file)
    /\ Len(Value(progress_file).session_history) = 1

\* C17: each record_challenge_result call increases items_studied by exactly
\* 1, increases correct_items by 1 if and only if the accuracy of the attempt
\* is >= 0.8 (0.8 itself counts as correct) and adds the accuracy and the wpm
\* of the attempt to the running sums; so correct_items <= items_studied in
\* every reachable state.
C17_RecordCounts ==
    [][ /\ ret'.op = "record_challenge_result" =>
              /\ session_stats'.items_studied = session_stats.items_studied + 1
              /\ session_stats'.correct_items =
                    session_stats.correct_items
                       + (IF ret'.performance * 10 >= 8 * PerfScale THEN 1 ELSE 0)
              /\ (ret'.performance = 80) =>
                    session_stats'.correct_items = session_stats.correct_items + 1
              /\ session_stats'.total_accuracy =
                    session_stats.total_accuracy + ret'.performance
              /\ session_stats'.total_wpm = session_stats.total_wpm + ret'.wpm
              /\ session_stats'.start_time = session_stats.start_time
        /\ session_stats.correct_items <= session_stats.items_studied
        /\ session_stats'.correct_items <= session_stats'.items_studied
      ]_vars

\* two attempts were recorded in a session, one of accuracy 0.79 and then one
\* of accuracy exactly 0.8, which alone counts as correct
C17_Witness ==
    /\ ret.op = "record_challenge_result"
    /\ ret.performance = 80
    /\ ~IsNone(session_stats.start_time)
    /\ session_stats.items_studied = 2
    /\ session_stats.correct_items = 1
    /\ session_stats.total_accuracy = 159
    /\ session_stats.total_wpm = 80

\* the summary is all zero: duration, items_studied, correct_items,
\* accuracy_percentage and average_wpm
Zeroed(summary) ==
    /\ Equals(summary.duration_minutes, 0, 1)
    /\ summary.items_studied = 0
    /\ summary.correct_items = 0
    /\ Equals(summary.accuracy_percentage, 0, 1)
    /\ Equals(summary.average_wpm, 0, 1)

\* the sum of a field over a sequence of attempts
RECURSIVE SumOf(_, _)
SumOf(attempts, field) ==
    IF attempts = << >> THEN 0
    ELSE Head(attempts)[field] + SumOf(Tail(attempts), field)

\* the summary reports the averages over exactly these attempts, and 0 for
\* both when there is none
AveragesOver(summary, attempts) ==
    /\ summary.items_studied = Len(attempts)
    /\ IF attempts = << >>
       THEN /\ Equals(summary.accuracy_percentage, 0, 1)
            /\ Equals(summary.average_wpm, 0, 1)
       ELSE /\ Equals(summary.accuracy_percentage,
                      SumOf(attempts, "accuracy") * 100, Len(attempts))
            /\ Equals(summary.average_wpm,
                      SumOf(attempts, "wpm"), Len(attempts))

C19_SecondEndIsZeroed ==
    (ret.op = "end_session" /\ ret.again) =>
       /\ ~ret.raised
       /\ Zeroed(ret.summary)

\* the second of two end_session calls has returned zeros, the first having
\* reported a session of two attempts
C19_Witness ==
    /\ ret.op = "end_session"
    /\ ~ret.raised
    /\ ret.again
    /\ ret.before[1].items_studied = 2
    /\ ~Equals(ret.before[1].duration_minutes, 0, 1)
    /\ Zeroed(ret.summary)

\* a step that calls end_session while no session is active: no start_session
\* since the construction or since the previous end_session
IdleEndStep ==
    /\ ret'.op = "end_session"
    /\ IsNone(session_stats.start_time)

\* C20 as stated: end_session called while no session is active returns a
\* zeroed summary, whatever other operations were called in between, and does
\* not raise.
C20_IdleEndIsZeroed ==
    [][ IdleEndStep => (~ret'.raised /\ Zeroed(ret'.summary)) ]_vars

\* C20, amended: end_session called while no session is active does not raise
\* and returns a summary with duration 0 whose items_studied, correct_items,
\* accuracy and wpm are those of the attempts recorded since the construction
\* or the previous end_session: all 0 when no attempt was recorded in between,
\* whatever the other operations.
C20_IdleEndReportsAttempts ==
    [][ IdleEndStep =>
           /\ ~ret'.raised
           /\ Equals(ret'.summary.duration_minutes, 0, 1)
           /\ ret'.summary.items_studied = session_stats.items_studied
           /\ ret'.summary.correct_items = session_stats.correct_items
           /\ ret'.summary.correct_items =
                 Len(SelectSeq(Unreported(session_log),
                               LAMBDA attempt : attempt.accuracy * 10 >= 8 * PerfScale))
           /\ AveragesOver(ret'.summary, Unreported(session_log))
           /\ Unreported(session_log) = << >> => Zeroed(ret'.summary)
           /\ session_stats' = IdleStats
      ]_vars

\* end_session, called with no session active after the clock moved and an
\* attempt of accuracy 0.8 was recorded, has reported that attempt with
\* duration 0
C20_Witness ==
    /\ ret.op = "end_session"
    /\ ~ret.raised
    /\ ~ret.again
    /\ now > 0
    /\ ret.summary.items_studied = 1
    /\ ret.summary.correct_items = 1
    /\ Equals(ret.summary.accuracy_percentage, 80 * 100, 1)
    /\ Equals(ret.summary.duration_minutes, 0, 1)
    /\ session_stats = IdleStats

\* the attempts of the sequence that count as correct: accuracy >= 0.8
CorrectAmong(attempts) ==
    SelectSeq(attempts, LAMBDA attempt : attempt.accuracy * 10 >= 8 * PerfScale)

\* C21: start_session resets all session counters to zero and records a start
\* timestamp from any prior state, and end_session returns the accumulator to
\* the idle state (no start time, zero counters), so the same tracker can run
\* any number of sessions and no attempt recorded before a start_session is
\* counted in the summary of the session that follows it: the summary of a
\* session counts exactly the attempts recorded since its start_session.
C21_SessionsAreReusable ==
    [][ /\ ret'.op = "start_session" =>
              session_stats' = [start_time |-> Some(now'), items_studied |-> 0,
                                correct_items |-> 0, total_accuracy |-> 0,
                                total_wpm |-> 0]
        /\ ret'.op = "end_session" =>
              /\ ~ret'.raised
              /\ session_stats' = [start_time |-> None, items_studied |-> 0,
                                   correct_items |-> 0, total_accuracy |-> 0,
                                   total_wpm |-> 0]
        /\ (ret'.op = "end_session" /\ ~IsNone(session_stats.start_time)) =>
              /\ ret'.summary.items_studied = Len(session_log)
              /\ ret'.summary.correct_items = Len(CorrectAmong(session_log))
              /\ AveragesOver(ret'.summary, session_log)
      ]_vars

\* a session that started after an attempt had been recorded has ended, the
\* clock having moved since its start: of the two attempts the tracker was
\* given, its summary counts the one recorded after its start_session
C21_Witness ==
    /\ ret.op = "end_session"
    /\ ~ret.raised
    /\ ~Equals(ret.summary.duration_minutes, 0, 1)
    /\ Len(session_history) = 2
    /\ Len(session_log) = 1
    /\ ret.summary.items_studied = 1
    /\ session_stats = IdleStats

(* ----------------------- claims: sequential practice ------------------- *)
\* a step that is a call of get_next_item in a row of such calls that began
\* with start_session: nexts' tells which call of the row it is
NextInRow ==
    /\ ret'.op = "SequentialPractice.get_next_item"
    /\ ~IsNone(nexts')

\* C22: in sequential mode, after start_session the k-th consecutive
\* get_next_item call (k = 1..n, with no goBack, skip or shuffle in between,
\* nor any other call that moves the cursor or changes the collection) returns
\* the k-th item of the collection in collection order, and every call after
\* the n-th returns no item.
C22_NextInOrder ==
    [][ NextInRow =>
           LET k == Value(nexts')
               n == Len(practice.study_items)
           IN  /\ practice'.study_items = practice.study_items
               /\ IF k <= n
                  THEN ret'.item = Some(practice.study_items[k])
                  ELSE ret'.item = None
      ]_vars

\* the third get_next_item call after start_session on a collection of two
\* different items has returned no item, results having been recorded between
\* the calls
C22_Witness ==
    /\ ret.op = "SequentialPractice.get_next_item"
    /\ nexts = Some(3)
    /\ Len(practice.study_items) = 2
    /\ practice.study_items[1] # practice.study_items[2]
    /\ practice.current_index = 2
    /\ Len(practice.session_results) = 2
    /\ ret.item = None

\* a step that calls go_back after start_session and two get_next_item calls
\* on a collection of at least two items
BackAfterTwo ==
    /\ ret'.op = "go_back"
    /\ nexts = Some(2)
    /\ Len(practice.study_items) >= 2

\* C23 as stated: in sequential mode on a collection of at least two items,
\* after start followed by next, next, goBack, the item returned by goBack is
\* the second item of the collection.
C23_GoBackReturnsSecond ==
    [][ BackAfterTwo => ret'.item = Some(practice.study_items[2]) ]_vars

\* C23, amended: in sequential mode on a collection of at least two items,
\* after start followed by next, next, goBack, the item returned by goBack is
\* the first item of the collection (the item returned before the last one),
\* and the cursor is left after it, so that the next get_next_item returns the
\* second item again.
C23_GoBackReturnsFirst ==
    [][ BackAfterTwo =>
           /\ ret'.item = Some(practice.study_items[1])
           /\ practice' = [practice EXCEPT !.current_index = 1]
           /\ NextOf(practice').item = Some(practice.study_items[2])
      ]_vars

\* go_back, called after start_session and two get_next_item calls on a
\* collection whose first two items differ, has returned the first item
C23_Witness ==
    /\ ret.op = "go_back"
    /\ ret.after = Some(2)
    /\ Len(practice.study_items) >= 2
    /\ practice.study_items[1] # practice.study_items[2]
    /\ ret.item = Some(practice.study_items[1])
    /\ practice.current_index = 1

\* C24: skip_item advances the cursor by exactly one position when the cursor
\* is before the end of the collection and is a no-op at the end; in both
\* cases it leaves the recorded session results and the order of the
\* collection unchanged.
C24_SkipAdvancesByOne ==
    [][ ret'.op = "skip_item" =>
           /\ practice.current_index < Len(practice.study_items) =>
                 practice'.current_index = practice.current_index + 1
           /\ practice.current_index >= Len(practice.study_items) =>
                 practice' = practice
           /\ practice'.session_results = practice.session_results
           /\ practice'.study_items = practice.study_items
           /\ practice'.current_index <= Len(practice'.study_items)
      ]_vars

\* skip_item was called with the cursor at the end of a collection of two
\* items, a result having been recorded, and has changed nothing
C24_Witness ==
    /\ ret.op = "skip_item"
    /\ Len(ret.before.study_items) = 2
    /\ ret.before.current_index = 2
    /\ ret.before.session_results # << >>
    /\ practice = ret.before

\* how often x occurs in the sequence s
Occurrences(s, x) == Cardinality({ i \in 1..Len(s) : s[i] = x })

\* t holds the elements of s, each as often as s does
SameMultiset(s, t) ==
    /\ Len(s) = Len(t)
    /\ \A i \in 1..Len(s) : Occurrences(s, s[i]) = Occurrences(t, s[i])

\* C25: shuffle_remaining leaves the items at positions before the cursor in
\* the same order, permutes only the items at positions from the cursor
\* onward, keeps the collection the same multiset of items with the same
\* length, and does not change the cursor or the recorded results.
C25_ShuffleKeepsVisited ==
    [][ ret'.op = "shuffle_remaining" =>
           LET c == practice.current_index
               n == Len(practice.study_items)
           IN  /\ Len(practice'.study_items) = n
               /\ SubSeq(practice'.study_items, 1, c)
                     = SubSeq(practice.study_items, 1, c)
               /\ SameMultiset(SubSeq(practice.study_items, c + 1, n),
                               SubSeq(practice'.study_items, c + 1, n))
               /\ SameMultiset(practice.study_items, practice'.study_items)
               /\ practice'.current_index = c
               /\ practice'.session_results = practice.session_results
               /\ practice'.start_time = practice.start_time
               /\ practice'.end_time = practice.end_time
      ]_vars

\* shuffle_remaining, called with the cursor after the first of three items
\* and a result recorded, has exchanged the second and the third item
C25_Witness ==
    /\ ret.op = "shuffle_remaining"
    /\ ret.before.current_index = 1
    /\ Len(ret.before.study_items) = 3
    /\ ret.before.session_results # << >>
    /\ practice.study_items[1] = ret.before.study_items[1]
    /\ practice.study_items[2] = ret.before.study_items[3]
    /\ practice.study_items[3] = ret.before.study_items[2]
    /\ practice.study_items[2] # practice.study_items[3]
    /\ practice.study_items[1] # practice.study_items[2]

\* C26: from any state of a SequentialPractice (not started, in progress or
\* ended), start_session sets the cursor to 0, empties the recorded results,
\* records a start time and clears the end time, while leaving the item
\* collection unchanged.
C26_StartResets ==
    [][ ret'.op = "SequentialPractice.start_session" =>
           practice' = [study_items |-> practice.study_items,
                        current_index |-> 0,
                        session_results |-> << >>,
                        start_time |-> Some(now'),
                        end_time |-> None]
      ]_vars

\* start_session was called on a practice that had ended with the cursor
\* moved and a result recorded, after the clock moved
C26_Witness ==
    /\ ret.op = "SequentialPractice.start_session"
    /\ ~IsNone(ret.before.end_time)
    /\ ret.before.start_time = Some(0)
    /\ ret.before.current_index > 0
    /\ ret.before.session_results # << >>
    /\ practice.study_items = ret.before.study_items
    /\ practice.study_items # << >>
    /\ practice.current_index = 0
    /\ practice.session_results = << >>
    /\ practice.start_time = Some(now)
    /\ now > 0
    /\ IsNone(practice.end_time)

\* the practice has ended: end_session was called and start_session has not
\* been called since (only these two assign end_time)
Ended == ~IsNone(practice.end_time)

\* C27: in sequential mode end is terminal until start is called again: after
\* end_session and before the next start_session, get_next_item, go_back and
\* skip_item present no item and do not move the cursor, and record_result
\* does not change the recorded results.
C27_EndIsTerminal ==
    [][ Ended =>
           /\ ret'.op \in {"SequentialPractice.get_next_item", "go_back"} =>
                 ret'.item = None
           /\ ret'.op \in {"SequentialPractice.get_next_item", "go_back",
                           "skip_item"} =>
                 practice'.current_index = practice.current_index
           /\ ret'.op = "record_result" =>
                 practice'.session_results = practice.session_results
      ]_vars

(* --------------------------- claims: persistence ----------------------- *)
\* the dict spells the fields of the item: the same id, mastery and
\* importance, and for last_studied null when the item has none and else the
\* text of its time
Spells(dict, item) ==
    /\ dict.id = item.id
    /\ dict.mastery = item.mastery
    /\ dict.importance = item.importance
    /\ IF IsNone(item.last_studied)
       THEN dict.last_studied = None
       ELSE dict.last_studied = << "iso", Value(item.last_studied) >>

\* a file that save_progress wrote
Saved(file) ==
    /\ ~IsNone(file)
    /\ "metadata" \in DOMAIN Value(file)
    /\ "date_saved" \in DOMAIN Value(file).metadata

NoTimestamp(dict) ==
    IF "last_studied" \in DOMAIN dict
    THEN dict.last_studied = None \/ dict.last_studied[1] # "iso"
    ELSE TRUE

\* the dicts of the items of a file, none when the file is no JSON object or
\* has no key items
DictsOf(file) ==
    IF IsNone(file) THEN << >>
    ELSE IF "items" \in DOMAIN Value(file) THEN Value(file).items
    ELSE << >>

\* the times from which an item is looked at: now and one, seven and thirty
\* days later
LaterTimes(t) == { t, t + TicksPerDay, t + 7 * TicksPerDay, t + 30 * TicksPerDay }

\* C29: when a persisted item has a missing or unparseable last_studied value,
\* loading it does not abort (load_progress raises only on an item whose
\* item_type is no value of the enum, or on a file that is no JSON object):
\* the item is restored with lastStudied absent and is thereafter treated as
\* never studied (timeFactor 10.0 in get_next_item, always included by
\* get_due_items), with its other fields restored.
C29_BadTimestampIsNeverStudied ==
    [][ /\ ret'.op = "load_progress" =>
              LET dicts == DictsOf(progress_file) IN
              /\ ret'.raised =>
                    \/ "array" \in DOMAIN Value(progress_file)
                    \/ \E j \in 1..Len(dicts) :
                          /\ "item_type" \in DOMAIN dicts[j]
                          /\ dicts[j].item_type \notin StudyItemType
              /\ \A i \in 1..Len(dicts) :
                    (/\ NoTimestamp(dicts[i])
                     /\ \A j \in 1..i : "item_type" \in DOMAIN dicts[j] =>
                                           dicts[j].item_type \in StudyItemType) =>
                       /\ i <= Len(study_items')
                       /\ IsNone(study_items'[i].last_studied)
                       /\ study_items'[i].id = dicts[i].id
                       /\ study_items'[i].mastery =
                             (IF "mastery" \in DOMAIN dicts[i]
                              THEN dicts[i].mastery ELSE 0)
                       /\ study_items'[i].importance =
                             (IF "importance" \in DOMAIN dicts[i]
                              THEN dicts[i].importance ELSE 5)
                       /\ \A t \in LaterTimes(now') :
                             /\ TimeFactor(study_items'[i], t) = 10 * IntervalLcm
                             /\ \E k \in 1..Len(DueFrom(study_items', 1, t)) :
                                   DueFrom(study_items', 1, t)[k] = i
        /\ ret'.op = "get_due_items" =>
              \A i \in 1..Len(study_items) :
                 IsNone(study_items[i].last_studied) =>
                    \E k \in 1..Len(ret'.due) : ret'.due[k] = i
      ]_vars

\* from a file of two items, the first with a last_studied that is no date
\* and the second without the key, both were restored as never studied, and
\* get_due_items, called thirty days later, has returned both
C29_Witness ==
    /\ ret.op = "get_due_items"
    /\ ret.due = << 1, 2 >>
    /\ now = 30 * TicksPerDay
    /\ ~IsNone(progress_file)
    /\ Len(DictsOf(progress_file)) = 2
    /\ DictsOf(progress_file)[1] =
          [id |-> 1, item_type |-> "definition", importance |-> 1,
           mastery |-> Tenths(5), last_studied |-> << "str", 9 >>]
    /\ DictsOf(progress_file)[2] =
          [id |-> 2, item_type |-> "definition", importance |-> 1,
           mastery |-> Tenths(5)]
    /\ Len(study_items) = 2
    /\ study_items[1] = [id |-> 1, item_type |-> "definition", importance |-> 1,
                         mastery |-> Tenths(5), last_studied |-> None]
    /\ study_items[2].last_studied = None
    /\ study_items[2].mastery = Tenths(5)

\* C30: load_progress is all-or-nothing: it either returns True with the item
\* collection and session history replaced by the file's content, or it
\* reports a load failure by returning False and leaves the current item
\* collection and session history unchanged; it never raises and never leaves
\* a partially loaded or fabricated collection.
C30_LoadIsAllOrNothing ==
    [][ ret'.op = "load_progress" =>
           /\ ~ret'.raised
           /\ IF ret'.ok
              THEN /\ ~IsNone(progress_file)
                   /\ Len(study_items') = Len(DictsOf(progress_file))
                   /\ \A i \in 1..Len(study_items') :
                         study_items'[i].id = DictsOf(progress_file)[i].id
                   /\ session_history' =
                         (IF "session_history" \in DOMAIN Value(progress_file)
                          THEN Value(progress_file).session_history ELSE << >>)
              ELSE /\ study_items' = study_items
                   /\ session_history' = session_history
      ]_vars

(* ------------------------------ claims: ids ---------------------------- *)
\* none of the ids of the list is the id of an item of the collection
FreshIds(items) ==
    \A i \in 1..Len(study_items), j \in 1..Len(items) :
        study_items[i].id # items[j].id

\* C31 as stated: item ids are unique within the scheduler's collection:
\* after any sequence of load_study_items / add_items calls, each given a list
\* of items with pairwise distinct ids, and of load_progress calls, no two
\* entries of the tracker's study_items have the same id.
C31_IdsAreUnique == DistinctIds(study_items)

\* C31, amended: after any sequence of load_study_items / add_items calls,
\* each given a list of items with pairwise distinct ids none of which is the
\* id of an item already in the collection, and of load_progress calls on
\* files whose items have pairwise distinct ids, no two entries of the
\* tracker's study_items have the same id: each such call, and every other
\* operation, keeps the ids of the collection distinct.
C31_FreshIdsStayUnique ==
    [][ DistinctIds(study_items) =>
           /\ \A items \in IdLists :
                 (FreshIds(items) /\ add_items(items))
                    => DistinctIds(study_items')
           /\ (/\ ret'.op = "load_progress"
               /\ DistinctIds(DictsOf(progress_file)))
                 => DistinctIds(study_items')
           /\ ret'.op \notin {"add_items", "load_progress"}
                 => DistinctIds(study_items')
      ]_vars

\* a second list was added to a collection that held the item 1 and had been
\* reloaded from its file: the new list brought the item 2 alone, and the
\* collection of two items has distinct ids
C31_Witness ==
    /\ ret.op = "add_items"
    /\ ~IsNone(progress_file)
    /\ Saved(progress_file)
    /\ Len(DictsOf(progress_file)) = 1
    /\ Len(study_items) = 2
    /\ study_items[1].id = 1
    /\ study_items[2].id = 2
    /\ DistinctIds(study_items)

(* ------------------------ claims: updates and history ------------------ *)
\* the step is an update of the item id X, by either entry point
UpdateOf(X) ==
    /\ ret'.op \in {"update_item_mastery", "record_challenge_result"}
    /\ ret'.item_id = X

\* an item of the collection has the id
Known(items, X) == \E i \in 1..Len(items) : items[i].id = X

\* C33: an update is an independent per-item write: record_challenge_result /
\* update_item_mastery for item id X changes the mastery and lastStudied of
\* the item with id X only, leaving every other item's fields unchanged; when
\* no item has id X it changes no item and appends nothing to the session
\* history, although the session counters still count the attempt.
C33_UpdateIsPerItem ==
    [][ \A X \in 1..(MaxTrackerItems + 1) :
          UpdateOf(X) =>
            /\ Len(study_items') = Len(study_items)
            /\ \A i \in 1..Len(study_items) :
                  /\ study_items[i].id # X => study_items'[i] = study_items[i]
                  /\ study_items'[i] =
                        [study_items[i] EXCEPT
                           !.mastery = study_items'[i].mastery,
                           !.last_studied = study_items'[i].last_studied]
            /\ ~Known(study_items, X) =>
                  /\ study_items' = study_items
                  /\ session_history' = session_history
            /\ ret'.op = "record_challenge_result" =>
                  session_stats'.items_studied = session_stats.items_studied + 1
      ]_vars

\* two items; an attempt at the first was recorded a day after the epoch, then
\* an attempt at an id no item has: the second item is as it was added, the
\* history has the one entry and the counters count two attempts
C33_Witness ==
    /\ ret.op = "record_challenge_result"
    /\ ret.item = 0
    /\ Len(study_items) = 2
    /\ study_items[1].id # study_items[2].id
    /\ ~IsNone(study_items[1].last_studied)
    /\ IsNone(study_items[2].last_studied)
    /\ study_items[2].mastery = 0
    /\ Len(session_history) = 1
    /\ session_stats.items_studied = 2

\* the history after the step is the history before it with one more entry
Appended ==
    /\ Len(session_history') = Len(session_history) + 1
    /\ SubSeq(session_history', 1, Len(session_history)) = session_history

\* the entry an update of the item id X appends: its item_id is X and its
\* new_mastery is the mastery the item has after the update
EntryOf(X) ==
    LET entry == session_history'[Len(session_history')]
        k == FirstWithId(study_items, X)
    IN  /\ entry.item_id = X
        /\ entry.new_mastery = study_items'[k].mastery

\* every operation other than load_progress keeps the entries the history
\* has, and adds one, at the end, exactly when it is the update of an item of
\* the collection
AppendOnly ==
    /\ \A X \in 1..(MaxHistoryItems + 1) :
          (UpdateOf(X) /\ Known(study_items, X)) => (Appended /\ EntryOf(X))
    /\ (/\ ret'.op # "load_progress"
        /\ \A X \in 1..(MaxHistoryItems + 1) :
              ~(UpdateOf(X) /\ Known(study_items, X)))
          => session_history' = session_history

\* the step is a load_progress call that read the file and returned True
LoadedNow == ret'.op = "load_progress" /\ ~ret'.raised /\ ret'.ok

\* C34 as stated: the session history is append-only: every update of an item
\* present in the collection appends exactly one entry whose item_id is that
\* item's id and whose new_mastery equals the item's mastery after the
\* update, existing entries are never altered or removed by any operation
\* other than load_progress, and the history length equals the number of
\* updates applied to known items since the last load: none right after a
\* load, and one more with each such update.
C34_LengthCountsUpdates ==
    [][ /\ AppendOnly
        /\ LoadedNow => Len(session_history') = 0 ]_vars

\* C34, amended: the session history is append-only: every update of an item
\* present in the collection appends exactly one entry whose item_id is that
\* item's id and whose new_mastery equals the item's mastery after the
\* update, existing entries are never altered or removed by any operation
\* other than load_progress, and the history length equals the number of
\* entries the last load read from the file plus the number of updates
\* applied to known items since: a load that returns True leaves the history
\* of the file, a load that fails leaves the history as it was.
C34_LengthCountsLoadedAndUpdates ==
    [][ /\ AppendOnly
        /\ LoadedNow =>
              session_history' =
                 Get(Value(progress_file), "session_history", << >>)
        /\ (ret'.op = "load_progress" /\ ~LoadedNow) =>
              session_history' = session_history ]_vars

\* a file with a history of one entry was loaded and the item it brought was
\* updated twice since, a day later: the history has the entry of the file
\* and the two new ones
C34_Witness ==
    /\ ret.op = "update_item_mastery"
    /\ ret.item = 1
    /\ now > 0
    /\ Len(session_history) = 3
    /\ session_history[1] = FileHistory[1]
    /\ session_history[2].timestamp = isoformat(now)
    /\ session_history[3].new_mastery = study_items[1].mastery

(* ----------------- claims: the cursor and its challenge ---------------- *)
\* C35: after any sequence of start_session, get_next_item, skip_item,
\* go_back, restart, shuffle_remaining, add_items, record_result and
\* end_session calls, the sequential cursor satisfies
\* 0 <= current_index <= len(study_items), and items_left() equals
\* len(study_items) - current_index.
C35_CursorInRange ==
    /\ 0 <= practice.current_index
    /\ practice.current_index <= Len(practice.study_items)
    /\ ItemsLeft(practice) = Len(practice.study_items) - practice.current_index
    /\ ret.op = "items_left" =>
          ret.left = Len(practice.study_items) - practice.current_index

\* items_left was called with the cursor after the second of three items, in
\* a session that was started
C35_Witness ==
    /\ ret.op = "items_left"
    /\ ret.left = 1
    /\ practice.current_index = 2
    /\ Len(practice.study_items) = 3
    /\ ~IsNone(practice.start_time)

\* C36: whenever get_next_item or go_back has just returned an item,
\* including the last item of the collection, an immediately following
\* get_challenge_for_current_item returns a started challenge whose study
\* item is that same item (never None and never a different item).
C36_ChallengeIsForReturnedItem ==
    (ret.op = "get_challenge_for_current_item" /\ ~IsNone(ret.item)) =>
        /\ ~IsNone(ret.challenge)
        /\ Value(ret.challenge).study_item = Value(ret.item)
        /\ Value(ret.challenge).start_time = Some(now)

\* C37: the completion_percentage in the summary returned by
\* SequentialPractice.end_session is between 0 and 100 inclusive for every
\* sequence of next, goBack, skip and record_result operations in the
\* session, is 0 when no result was recorded or the collection is empty, and
\* end_session never raises.
C37_CompletionIsAPercentage ==
    ret.op = "SequentialPractice.end_session" =>
        LET summary == ret.summary
            completion == summary.completion_percentage
        IN  /\ ~Raised(completion)
            /\ ~Raised(summary.average_accuracy)
            /\ ~Raised(summary.average_wpm)
            /\ ~Raised(summary.duration_minutes)
            /\ 0 <= completion.num
            /\ completion.num <= 100 * completion.den
            /\ (practice.session_results = << >> \/ practice.study_items = << >>)
                  => completion.num = 0

(* --------------------------- claims: the loop -------------------------- *)
\* the ids of the items that were returned and updated so far
Returned == { session_history[k].item_id : k \in 1..Len(session_history) }

\* C39: new items are front-loaded in the closed loop: starting from a pool
\* in which every item is never studied with mastery 0 and importance >= 1,
\* and repeating (get_next_item in the non-random branch, then update of the
\* returned item) within one day, no item is returned a second time before
\* every item of the pool has been returned once.
C39_NewItemsFirst ==
    (/\ ret.op = "get_next_item"
     /\ ret.item # 0
     /\ study_items[ret.item].id \in Returned)
      => \A i \in 1..Len(study_items) : study_items[i].id \in Returned

\* three items of importance 10, 1 and 5: the first and the third were
\* returned and updated, half a day went by, and the call returns the second,
\* the least important, before any of the two is returned again
C39_Witness ==
    /\ ret.op = "get_next_item"
    /\ ret.item = 2
    /\ Len(study_items) = 3
    /\ study_items[1].importance = 10
    /\ study_items[2].importance = 1
    /\ study_items[3].importance = 5
    /\ Returned = {1, 3}
    /\ now >= (TicksPerDay - 1) \div MaxLoopAdvances
    /\ study_items[1].mastery > 0

NextAndSkipOnly ==
    \A k \in 1..Len(shown) : shown[k].by \in {"start", "next", "skip"}

\* the handler found the collection exhausted and ended the practice
Exhausted == ret.op \in {"_next_item", "_skip_item"} /\ ret.ended

\* C38: in the sequential practice UI flow, pressing Skip while item i of the
\* collection is displayed displays item i+1 next: in a session driven only
\* by Next and Skip until the collection is exhausted, every item of the
\* collection is displayed exactly once, in collection order.
C38_SkipShowsTheNextItem ==
    NextAndSkipOnly =>
        /\ Len(shown) <= Len(practice.study_items)
        /\ \A k \in 1..Len(shown) : shown[k].item = practice.study_items[k]
        /\ Exhausted => Len(shown) = Len(practice.study_items)

(* --------------------- claims: the session manager --------------------- *)
\* C40: in the structured session manager, for every interleaving of
\* timer-thread ticks with user 'Continue' presses, the timer's auto-advance
\* only moves the session out of a step whose own time limit plus the
\* 5-second grace period has elapsed since that step was entered; a step the
\* user has just entered is never left by a previously scheduled
\* auto-advance, and current_step stays within 0..5.
C40_AutoAdvanceOnlyFromExpiredStep ==
    [][ /\ manager'.current_step \in 0..5
        /\ (ret'.op = "auto_advance"
            /\ manager'.current_step # manager.current_step)
              => StepExpired(manager, now)
        /\ (ret.op = "_go_to_step" /\ ret'.op = "auto_advance")
              => manager'.current_step = manager.current_step
      ]_vars

====
